---------------------------- MODULE Spec2Model ----------------------------
(***************************************************************************)
(* Static narrative-graph and reference-integrity checks of the Ren'Py     *)
(* project test-suite (tests/test_renpy_project.py).                       *)
(*                                                                         *)
(* A document is a sequence of lines.  Every line is one of a fixed set of *)
(* line shapes, and each regular expression of the suite is modelled by    *)
(* the set of line shapes it matches:                                      *)
(*                                                                         *)
(*   kind        text of the line              matched by                  *)
(*   "label"     label n:          (column 0)  ^label\s+(\w+)\s*:          *)
(*   "jump"          jump n                    jump\s+(\w+)  \bjump\s+\w+  *)
(*   "say_jump"      "... jump n ..."          jump\s+(\w+)  \bjump\s+\w+  *)
(*   "x_jump"        if can_jump n:            jump\s+(\w+)                *)
(*   "call"          call n                    ^\s+call\s+(\w+)            *)
(*   "return"        return                    ^\s+return\s*$              *)
(*   "menu"          menu:                     "menu:" in content          *)
(*   "cfg_def"   define config.n = v           define\s+config\.(\w+)\s*=  *)
(*                                             \bconfig\.(\w+)             *)
(*   "cfg_ref"       if config.n:              \bconfig\.(\w+)             *)
(***************************************************************************)
EXTENDS Integers, Sequences, FiniteSets, TLC

VARIABLES
    files,        \* GAME_DIR: file name -> text (a sequence of lines)
    pc,           \* position of the test run
    labels,       \* cls.labels: insertion-ordered dict, label name -> block
    transitions,  \* cls.transitions: insertion-ordered dict, name -> set of targets
    choices,      \* _walk_path argument
    visited,      \* _walk_path local (a list) / reachability local (a set)
    current,      \* _walk_path local / reachability local
    choice_idx,   \* _walk_path local
    step,         \* number of completed iterations of `for _ in range(max_steps)`
    stack,        \* reachability local
    integrity,    \* TestLabelIntegrity: defined_labels, jump_targets, call_targets
    access,       \* the file system under GAME_DIR: whether the directory exists,
                  \* and the files that cannot be opened or decoded as UTF-8
    result        \* value returned by the operation that ran last

vars == <<files, pc, labels, transitions, choices, visited, current,
          choice_idx, step, stack, integrity, access, result>>

----------------------------------------------------------------------------
(* Bounds of the model *)

MaxLines == 3

MaxChoices == 2

MaxCorpusLines == 3

(* Program constant: max_steps = 50 in _walk_path *)
max_steps_one_more == 50 + 1

max_steps == 50

----------------------------------------------------------------------------
(* Lines and documents *)

(* a GAME_DIR that exists and whose files can all be read *)
AllReadable == [dir_exists |-> TRUE, unreadable |-> {}]

None == "None"

Line(k, n) == [k |-> k, n |-> n]

Names == {"start", "ending"}

ScriptLines ==
    {Line("label", n) : n \in Names} \cup {Line("jump", n) : n \in Names}
    \cup {Line("return", None), Line("menu", None), Line("call", "ending"),
          Line("say_jump", "ending"), Line("x_jump", "ending")}

SeqsUpTo(S, n) == UNION {[1..k -> S] : k \in 0..n}

Last(s) == s[Len(s)]

(* Python slice s[a:b] over 0-based offsets *)
Slice(s, a, b) == [i \in 1..(b - a) |-> s[a + i]]

----------------------------------------------------------------------------
(* Insertion-ordered dict: a sequence of <<key, value>> pairs *)

DictHas(d, k) == \E i \in 1..Len(d) : d[i][1] = k

DictGet(d, k) == d[CHOOSE i \in 1..Len(d) : d[i][1] = k][2]

DictSet(d, k, v) ==
    IF DictHas(d, k)
    THEN [i \in 1..Len(d) |-> IF d[i][1] = k THEN <<k, v>> ELSE d[i]]
    ELSE Append(d, <<k, v>>)

----------------------------------------------------------------------------
(* Regular expressions of the suite, as the line shapes they match *)

(* re.finditer(r'^label\s+(\w+)\s*:', text, re.MULTILINE): (m.start(), name) *)
RECURSIVE label_starts_from(_, _)
label_starts_from(text, i) ==
    IF i > Len(text) THEN <<>>
    ELSE (IF text[i].k = "label" THEN <<(<<i - 1, text[i].n>>)>> ELSE <<>>)
         \o label_starts_from(text, i + 1)

label_starts(text) == label_starts_from(text, 1)

(* kinds of line in which r'jump\s+(\w+)' finds a match *)
JumpTextKinds == {"jump", "say_jump", "x_jump"}

IsJumpText(l) == l.k \in JumpTextKinds

RECURSIVE jump_matches(_)
jump_matches(content) ==
    IF content = <<>> THEN <<>>
    ELSE (IF IsJumpText(Head(content)) THEN <<Head(content).n>> ELSE <<>>)
         \o jump_matches(Tail(content))

(* re.findall(r'jump\s+(\w+)', content): the captured names in text order *)
RECURSIVE jump_or_call_matches(_)
jump_or_call_matches(content) ==
    IF content = <<>> THEN <<>>
    ELSE (IF IsJumpText(Head(content)) \/ Head(content).k = "call"
          THEN <<Head(content).n>> ELSE <<>>)
         \o jump_or_call_matches(Tail(content))

findall_jump_or_call(content) == jump_or_call_matches(content)

(* the names of the lines that begin with the word jump only *)
findall_jump_statements(content) ==
    [i \in 1..Len(SelectSeq(content, LAMBDA l : l.k = "jump")) |->
        SelectSeq(content, LAMBDA l : l.k = "jump")[i].n]

findall_jump(content) == jump_matches(content)

(* bool(re.search(r'^\s+return\s*$', content, re.MULTILINE)); without
   re.MULTILINE the pattern never matches a block, which starts with its label line *)
search_return_no_multiline(content) == FALSE

search_return(content) == \E i \in 1..Len(content) : content[i].k = "return"

(* "menu:" in content *)
contains_menu(content) == \E i \in 1..Len(content) : content[i].k = "menu"

----------------------------------------------------------------------------
(* TestEndToEndPaths.setUpClass: cls.labels[name] = cls.script[start:end] *)

RECURSIVE build_labels(_, _, _, _)
build_labels(script, starts, i, acc) ==
    IF i > Len(starts) THEN acc
    ELSE LET start == starts[i][1]
             name  == starts[i][2]
             end   == IF i + 1 <= Len(starts) THEN starts[i + 1][1] ELSE Len(script)
         IN  build_labels(script, starts, i + 1,
                          DictSet(acc, name, Slice(script, start, end)))

E2E_setUpClass ==
    /\ pc = "new"
    /\ labels' = build_labels(files["script.rpy"], label_starts(files["script.rpy"]),
                              1, <<>>)
    /\ pc' = "e2e_ready"
    /\ UNCHANGED <<access, integrity, files, transitions, choices, visited, current, choice_idx,
                   step, stack, result>>

----------------------------------------------------------------------------
(* TestEndToEndPaths._walk_path *)

(* the error component of the returned triple; NoError is Python's None *)
NoError == <<>>

NotFound(l) == <<"Label not found", l>>

MaxStepsExceeded == <<"Max steps exceeded">>

Returned(v, flag, err) == [visited |-> v, has_return |-> flag, error |-> err]

(* line 962: whether the iteration takes its next node from the choices *)
takes_choice_no_menu_test(content, chs, idx) == idx < Len(chs)

takes_choice(content, chs, idx) == contains_menu(content) /\ idx < Len(chs)

(* lines 962-966: the node the walk moves to *)
next_node_first_jump(content, jumps, chs, idx) ==
    IF takes_choice(content, chs, idx) THEN chs[idx + 1] ELSE jumps[1]

next_node_ignores_choices(content, jumps, chs, idx) == Last(jumps)

next_node(content, jumps, chs, idx) ==
    IF takes_choice(content, chs, idx) THEN chs[idx + 1] ELSE Last(jumps)

(* _walk_path as the function of its arguments that the code computes:
   `left` iterations of the loop remain *)
RECURSIVE walk_path(_, _, _, _, _, _)
walk_path(labs, cur, chs, idx, vis, left) ==
    IF left = 0 THEN Returned(vis, FALSE, MaxStepsExceeded)
    ELSE IF ~DictHas(labs, cur) THEN Returned(vis, FALSE, NotFound(cur))
    ELSE LET content == DictGet(labs, cur)
             jumps   == findall_jump(content)
         IN  IF jumps = <<>> THEN Returned(vis, search_return(content), NoError)
             ELSE LET nxt == next_node(content, jumps, chs, idx)
                  IN  walk_path(labs, nxt, chs,
                                IF takes_choice(content, chs, idx) THEN idx + 1 ELSE idx,
                                Append(vis, nxt), left - 1)

(* lines 946-949: entry of _walk_path *)
WalkCall_keeps_choice_idx(start_label, chs) ==
    /\ pc \in {"e2e_ready", "walk_returned"}
    /\ visited' = <<start_label>>
    /\ current' = start_label
    /\ choices' = chs
    /\ step' = 0
    /\ result' = None
    /\ pc' = "walking"
    /\ UNCHANGED <<access, integrity, files, labels, transitions, stack, choice_idx>>

WalkCall(start_label, chs) ==
    /\ pc \in {"e2e_ready", "walk_returned"}
    /\ visited' = <<start_label>>
    /\ current' = start_label
    /\ choice_idx' = 0
    /\ choices' = chs
    /\ step' = 0
    /\ result' = None
    /\ pc' = "walking"
    /\ UNCHANGED <<access, integrity, files, labels, transitions, stack>>

(* lines 952-953: current is no key of labels *)
WalkNotFound_drops_last ==
    /\ pc = "walking"
    /\ step < max_steps
    /\ ~DictHas(labels, current)
    /\ result' = Returned(SubSeq(visited, 1, Len(visited) - 1), FALSE, NotFound(current))
    /\ pc' = "walk_returned"
    /\ UNCHANGED <<access, integrity, files, labels, transitions, choices, visited, current,
                   choice_idx, step, stack>>

WalkNotFound ==
    /\ pc = "walking"
    /\ step < max_steps
    /\ ~DictHas(labels, current)
    /\ result' = Returned(visited, FALSE, NotFound(current))
    /\ pc' = "walk_returned"
    /\ UNCHANGED <<access, integrity, files, labels, transitions, choices, visited, current,
                   choice_idx, step, stack>>

(* lines 955-960: the block has no jump text *)
WalkStop ==
    /\ pc = "walking"
    /\ step < max_steps
    /\ DictHas(labels, current)
    /\ LET content == DictGet(labels, current)
       IN  /\ findall_jump(content) = <<>>
           /\ result' = Returned(visited, search_return(content), NoError)
    /\ pc' = "walk_returned"
    /\ UNCHANGED <<access, integrity, files, labels, transitions, choices, visited, current,
                   choice_idx, step, stack>>

(* lines 962-968: move to the next node *)
WalkAdvance_counts_every_step ==
    /\ pc = "walking"
    /\ step < max_steps
    /\ DictHas(labels, current)
    /\ LET content == DictGet(labels, current)
           jumps   == findall_jump(content)
       IN  /\ jumps # <<>>
           /\ current' = next_node(content, jumps, choices, choice_idx)
           /\ choice_idx' = choice_idx + 1
           /\ visited' = Append(visited, current')
    /\ step' = step + 1
    /\ UNCHANGED <<access, integrity, files, pc, labels, transitions, choices, stack, result>>

WalkAdvance ==
    /\ pc = "walking"
    /\ step < max_steps
    /\ DictHas(labels, current)
    /\ LET content == DictGet(labels, current)
           jumps   == findall_jump(content)
       IN  /\ jumps # <<>>
           /\ current' = next_node(content, jumps, choices, choice_idx)
           /\ choice_idx' = IF takes_choice(content, choices, choice_idx)
                            THEN choice_idx + 1 ELSE choice_idx
           /\ visited' = Append(visited, current')
    /\ step' = step + 1
    /\ UNCHANGED <<access, integrity, files, pc, labels, transitions, choices, stack, result>>

(* line 970: the for loop ran max_steps iterations *)
WalkExhausted ==
    /\ pc = "walking"
    /\ step >= max_steps
    /\ result' = Returned(visited, FALSE, MaxStepsExceeded)
    /\ pc' = "walk_returned"
    /\ UNCHANGED <<access, integrity, files, labels, transitions, choices, visited, current,
                   choice_idx, step, stack>>

----------------------------------------------------------------------------
(* TestStoryGraphIntegrity.setUpClass: cls.labels and cls.transitions *)

Range(s) == {s[i] : i \in 1..Len(s)}

RECURSIVE build_transitions_defined_only(_, _, _, _)
build_transitions_defined_only(script, starts, i, acc) ==
    IF i > Len(starts) THEN acc
    ELSE LET start == starts[i][1]
             name  == starts[i][2]
             end   == IF i + 1 <= Len(starts) THEN starts[i + 1][1] ELSE Len(script)
             block == Slice(script, start, end)
         IN  build_transitions_defined_only(script, starts, i + 1,
                 DictSet(acc, name,
                         {t \in Range(findall_jump(block)) :
                             \E j \in 1..Len(starts) : starts[j][2] = t}))

RECURSIVE build_transitions(_, _, _, _)
build_transitions(script, starts, i, acc) ==
    IF i > Len(starts) THEN acc
    ELSE LET start == starts[i][1]
             name  == starts[i][2]
             end   == IF i + 1 <= Len(starts) THEN starts[i + 1][1] ELSE Len(script)
             block == Slice(script, start, end)
         IN  build_transitions(script, starts, i + 1,
                               DictSet(acc, name, Range(findall_jump(block))))

Graph_setUpClass ==
    /\ pc \in {"new", "graph_ready", "reach_done", "dead_end_done"}
    /\ labels' = build_labels(files["script.rpy"], label_starts(files["script.rpy"]),
                              1, <<>>)
    /\ transitions' = build_transitions(files["script.rpy"],
                                        label_starts(files["script.rpy"]), 1, <<>>)
    /\ pc' = "graph_ready"
    /\ UNCHANGED <<access, integrity, files, choices, visited, current, choice_idx, step, stack, result>>

GraphIdle == {"graph_ready", "reach_done", "dead_end_done"}

----------------------------------------------------------------------------
(* TestStoryGraphIntegrity.test_all_endings_reachable_from_start *)

required_endings ==
    {"ending_scholar", "ending_guardian", "ending_liberator", "ending_shadow",
     "path_true"}

(* self.transitions.get(current, set()) *)
transitions_get_defined_only(name) ==
    IF DictHas(transitions, name)
    THEN {t \in DictGet(transitions, name) : DictHas(transitions, t)}
    ELSE {}

transitions_get(name) ==
    IF DictHas(transitions, name) THEN DictGet(transitions, name) ELSE {}

(* the orders in which a Python set may be iterated *)
Orders(S) ==
    {s \in [1..Cardinality(S) -> S] : \A i, j \in 1..Cardinality(S) : s[i] = s[j] => i = j}

(* lines 1044-1045 *)
ReachStart ==
    /\ pc \in GraphIdle
    /\ visited' = {}
    /\ stack' = <<"start">>
    /\ current' = None
    /\ result' = None
    /\ pc' = "traversing"
    /\ UNCHANGED <<access, integrity, files, labels, transitions, choices, choice_idx, step>>

(* lines 1047-1049: pop a node that was visited already *)
ReachSkip ==
    /\ pc = "traversing"
    /\ stack # <<>>
    /\ Last(stack) \in visited
    /\ current' = Last(stack)
    /\ stack' = SubSeq(stack, 1, Len(stack) - 1)
    /\ UNCHANGED <<access, integrity, files, pc, labels, transitions, choices, visited, choice_idx,
                   step, result>>

(* lines 1047-1051: pop a new node, mark it, push its unvisited successors *)
ReachVisit_unguarded ==
    /\ pc = "traversing"
    /\ stack # <<>>
    /\ current' = Last(stack)
    /\ visited' = visited \cup {current'}
    /\ \E order \in Orders(transitions_get(current')) :
          stack' = SubSeq(stack, 1, Len(stack) - 1) \o order
    /\ UNCHANGED <<access, integrity, files, pc, labels, transitions, choices, choice_idx, step, result>>

ReachVisit ==
    /\ pc = "traversing"
    /\ stack # <<>>
    /\ Last(stack) \notin visited
    /\ current' = Last(stack)
    /\ visited' = visited \cup {current'}
    /\ \E order \in Orders(transitions_get(current') \ visited') :
          stack' = SubSeq(stack, 1, Len(stack) - 1) \o order
    /\ UNCHANGED <<access, integrity, files, pc, labels, transitions, choices, choice_idx, step, result>>

(* lines 1053-1054: the loop ended; missing = required_endings - visited *)
ReachDone ==
    /\ pc = "traversing"
    /\ stack = <<>>
    /\ result' = [missing |-> required_endings \ visited]
    /\ pc' = "reach_done"
    /\ UNCHANGED <<access, integrity, files, labels, transitions, choices, visited, current,
                   choice_idx, step, stack>>

----------------------------------------------------------------------------
(* TestStoryGraphIntegrity.test_no_dead_end_labels *)

(* kinds of line in which r'\bjump\s+\w+' finds a match *)
WordJumpKinds == {"jump", "say_jump"}

(* bool(re.search(r'\bjump\s+\w+', content)) *)
search_jump(content) == \E i \in 1..Len(content) : content[i].k \in WordJumpKinds

(* the assertion of line 1060 fails for this block *)
fails_dead_end_assert(content) == ~(search_jump(content) \/ search_return(content))

(* the loop stops at the first failing assertTrue: its label is the one reported *)
RECURSIVE first_dead_end(_, _)
first_dead_end(d, i) ==
    IF i > Len(d) THEN None
    ELSE IF fails_dead_end_assert(d[i][2]) THEN d[i][1]
    ELSE first_dead_end(d, i + 1)

test_no_dead_end_labels ==
    /\ pc \in GraphIdle
    /\ result' = [dead_end |-> first_dead_end(labels, 1)]
    /\ pc' = "dead_end_done"
    /\ UNCHANGED <<access, integrity, files, labels, transitions, choices, visited, current,
                   choice_idx, step, stack>>

----------------------------------------------------------------------------
(* Inputs *)

Scripts == SeqsUpTo(ScriptLines, MaxLines)

(* a label block as an author writes it: the label line, an optional menu,
   one jump statement per target, an optional return *)
RECURSIVE JumpLines(_)
JumpLines(targets) ==
    IF targets = <<>> THEN <<>>
    ELSE <<Line("jump", Head(targets))>> \o JumpLines(Tail(targets))

Block(name, menu, targets, ret) ==
    <<Line("label", name)>>
    \o (IF menu THEN <<Line("menu", None)>> ELSE <<>>)
    \o JumpLines(targets)
    \o (IF ret THEN <<Line("return", None)>> ELSE <<>>)

(* every jump graph over three labels: each block jumps to a subset of the
   labels, and a block without jumps returns *)
GraphNodes == <<"start", "mid", "ending">>

RECURSIVE Chosen(_, _)
Chosen(order, T) ==
    IF order = <<>> THEN <<>>
    ELSE (IF Head(order) \in T THEN <<Head(order)>> ELSE <<>>) \o Chosen(Tail(order), T)

GraphBlock(name, T) == Block(name, FALSE, Chosen(GraphNodes, T), T = {})

GraphScripts ==
    {GraphBlock("start", f["start"]) \o GraphBlock("mid", f["mid"])
        \o GraphBlock("ending", f["ending"]) :
     f \in [Range(GraphNodes) -> SUBSET Range(GraphNodes)]}

(* the story graph of the game's script.rpy *)
ScenarioScript ==
    Block("start", FALSE, <<"chapter_1">>, FALSE)
    \o Block("chapter_1", TRUE, <<"ch1_library", "ch1_underground">>, FALSE)
    \o Block("ch1_library", FALSE, <<"ch1_convergence">>, FALSE)
    \o Block("ch1_underground", FALSE, <<"ch1_convergence">>, FALSE)
    \o Block("ch1_convergence", FALSE, <<"chapter_2">>, FALSE)
    \o Block("chapter_2", TRUE, <<"ch2_elara", "ch2_kael", "ch2_sirin">>, FALSE)
    \o Block("ch2_elara", FALSE, <<"ch2_convergence">>, FALSE)
    \o Block("ch2_kael", FALSE, <<"ch2_convergence">>, FALSE)
    \o Block("ch2_sirin", FALSE, <<"ch2_convergence">>, FALSE)
    \o Block("ch2_convergence", FALSE, <<"chapter_3">>, FALSE)
    \o Block("chapter_3", TRUE,
             <<"path_knowledge", "path_duty", "path_freedom", "path_power",
               "path_true">>, FALSE)
    \o Block("path_knowledge", FALSE, <<"ending_scholar">>, FALSE)
    \o Block("path_duty", FALSE, <<"ending_guardian">>, FALSE)
    \o Block("path_freedom", FALSE, <<"ending_liberator">>, FALSE)
    \o Block("path_power", FALSE, <<"ending_shadow">>, FALSE)
    \o Block("path_true", FALSE, <<>>, TRUE)
    \o Block("ending_scholar", FALSE, <<>>, TRUE)
    \o Block("ending_guardian", FALSE, <<>>, TRUE)
    \o Block("ending_liberator", FALSE, <<>>, TRUE)
    \o Block("ending_shadow", FALSE, <<>>, TRUE)

ShortChoices == SeqsUpTo(Names, MaxChoices)

(* a run of max_steps - 1 equal choices followed by one more choice *)
LongChoices ==
    {[i \in 1..max_steps |-> IF i < max_steps THEN a ELSE b] : a \in Names, b \in Names}

(* the choice lists of test_path_scholar, _guardian, _liberator, _shadow *)
scholar_choices ==
    <<"chapter_1", "ch1_library", "ch1_convergence", "chapter_2", "ch2_elara",
      "ch2_convergence", "chapter_3", "path_knowledge", "ending_scholar">>

guardian_choices ==
    <<"chapter_1", "ch1_underground", "ch1_convergence", "chapter_2", "ch2_kael",
      "ch2_convergence", "chapter_3", "path_duty", "ending_guardian">>

liberator_choices ==
    <<"chapter_1", "ch1_library", "ch1_convergence", "chapter_2", "ch2_sirin",
      "ch2_convergence", "chapter_3", "path_freedom", "ending_liberator">>

shadow_choices ==
    <<"chapter_1", "ch1_underground", "ch1_convergence", "chapter_2", "ch2_kael",
      "ch2_convergence", "chapter_3", "path_power", "ending_shadow">>

TestChoices == {scholar_choices, guardian_choices, liberator_choices, shadow_choices}

WalkChoices == ShortChoices \cup LongChoices \cup TestChoices

Init ==
    /\ files \in {[f \in {"script.rpy"} |-> s] :
                    s \in Scripts \cup GraphScripts \cup {ScenarioScript}}
    /\ pc = "new"
    /\ labels = <<>>
    /\ transitions = <<>>
    /\ choices = <<>>
    /\ visited = <<>>
    /\ current = None
    /\ choice_idx = 0
    /\ step = 0
    /\ stack = <<>>
    /\ integrity = None
    /\ access = AllReadable
    /\ result = None

Next ==
    \/ E2E_setUpClass
    \/ Graph_setUpClass
    \/ ReachStart
    \/ ReachSkip
    \/ ReachVisit
    \/ ReachDone
    \/ test_no_dead_end_labels
    \/ \E start_label \in Names, chs \in WalkChoices :
          WalkCall(start_label, chs)
    \/ WalkNotFound
    \/ WalkStop
    \/ WalkAdvance
    \/ WalkExhausted

Spec == Init /\ [][Next]_vars

----------------------------------------------------------------------------
(* read_all_rpy_files and the concatenations of the files' contents
   (lines 506-509, 1705-1706); os.listdir gives the files in any order *)

RECURSIVE concat(_, _)
concat(fs, order) ==
    IF order = <<>> THEN <<>> ELSE fs[Head(order)] \o concat(fs, Tail(order))

all_content_script_only(fs, order) == fs["script.rpy"]

all_content(fs, order) == concat(fs, order)

(* set(re.findall(pattern, all_content)): the names captured in lines of
   the kinds the pattern matches *)
findall_set(content, kinds) ==
    {content[i].n : i \in {j \in 1..Len(content) : content[j].k \in kinds}}

(* r'^label\s+(\w+)\s*:' with re.MULTILINE *)
LabelKinds == {"label"}

(* r'^\s+call\s+(\w+)' with re.MULTILINE *)
CallKinds == {"call"}

(* the words taken off call_targets, line 514 *)
call_stop_list == {"me", "after", "it", "the", "this", "that", "them"}

(* r'\bconfig\.(\w+)' and r'define\s+config\.(\w+)\s*=' *)
ConfigRefKinds == {"cfg_ref", "cfg_def"}

ConfigDefKinds == {"cfg_def"}

RENPY_BUILTIN_CONFIG ==
    {"has_autosave", "has_quicksave", "has_music", "has_sound", "thumbnail_width",
     "thumbnail_height", "overlay_screens"}

RefsIdle ==
    {"new", "refs_ready", "jump_checked", "call_checked", "dup_checked", "config_checked"}

(* positions at which TestLabelIntegrity is set up and none of its tests runs *)
LabelIntegrityIdle == {"refs_ready", "jump_checked", "call_checked", "dup_checked"}

(* TestLabelIntegrity.setUpClass *)
LabelIntegrity_setUpClass_jump_statements_only ==
    /\ pc \in {"new", "config_checked", "e2e_ready", "walk_returned",
               "graph_ready", "reach_done", "dead_end_done"} \cup LabelIntegrityIdle
    /\ \E order \in Orders(DOMAIN files) :
          LET content == all_content(files, order)
          IN  integrity' =
                  [files          |-> order,
                   defined_labels |-> findall_set(content, LabelKinds),
                   jump_targets   |-> findall_set(content, {"jump"}),
                   call_targets   |-> findall_set(content, CallKinds) \ call_stop_list]
    /\ pc' = "refs_ready"
    /\ UNCHANGED <<access, files, labels, transitions, choices, visited, current,
                   choice_idx, step, stack, result>>

LabelIntegrity_setUpClass ==
    /\ pc \in {"new", "config_checked", "e2e_ready", "walk_returned",
               "graph_ready", "reach_done", "dead_end_done"} \cup LabelIntegrityIdle
    /\ \E order \in Orders(DOMAIN files) :
          LET content == all_content(files, order)
          IN  integrity' =
                  [files          |-> order,
                   defined_labels |-> findall_set(content, LabelKinds),
                   jump_targets   |-> findall_set(content, JumpTextKinds),
                   call_targets   |-> findall_set(content, CallKinds) \ call_stop_list]
    /\ pc' = "refs_ready"
    /\ UNCHANGED <<access, files, labels, transitions, choices, visited, current,
                   choice_idx, step, stack, result>>

(* TestLabelIntegrity.test_all_jump_targets_exist: the set named by the failure *)
test_all_jump_targets_exist ==
    /\ pc \in LabelIntegrityIdle
    /\ result' = [missing |-> integrity.jump_targets \ integrity.defined_labels]
    /\ pc' = "jump_checked"
    /\ UNCHANGED <<access, files, labels, transitions, choices, visited, current,
                   choice_idx, step, stack, integrity>>

(* TestLabelIntegrity.test_all_call_targets_exist *)
test_all_call_targets_exist ==
    /\ pc \in LabelIntegrityIdle
    /\ result' = [missing |-> integrity.call_targets \ integrity.defined_labels]
    /\ pc' = "call_checked"
    /\ UNCHANGED <<access, files, labels, transitions, choices, visited, current,
                   choice_idx, step, stack, integrity>>

(* TestLabelIntegrity.test_no_duplicate_label_definitions *)

(* re.findall(r'^label\s+(\w+)\s*:', content, re.MULTILINE): the names in text order *)
findall_label(content) ==
    [i \in 1..Len(label_starts(content)) |-> label_starts(content)[i][2]]

(* lines 555-559: the (label, fname) pairs, file by file in the order of cls.files *)
RECURSIVE all_labels(_, _)
all_labels(fs, order) ==
    IF order = <<>> THEN <<>>
    ELSE LET fname == Head(order)
             found == findall_label(fs[fname])
         IN  [i \in 1..Len(found) |-> <<found[i], fname>>] \o all_labels(fs, Tail(order))

(* lines 561-566: an entry <<label, seen[label], fname>> stands for the message
   "'label' in both seen[label] and fname" *)
RECURSIVE duplicates_from(_, _, _, _)
duplicates_from(pairs, i, seen, duplicates) ==
    IF i > Len(pairs) THEN duplicates
    ELSE LET label == pairs[i][1]
             fname == pairs[i][2]
         IN  duplicates_from(pairs, i + 1, DictSet(seen, label, fname),
                             IF DictHas(seen, label)
                             THEN Append(duplicates, <<label, DictGet(seen, label), fname>>)
                             ELSE duplicates)

RECURSIVE other_file_only(_)
other_file_only(duplicates) ==
    IF duplicates = <<>> THEN <<>>
    ELSE (IF Head(duplicates)[2] # Head(duplicates)[3] THEN <<Head(duplicates)>> ELSE <<>>)
         \o other_file_only(Tail(duplicates))

find_duplicates_in_other_file_only(pairs) ==
    other_file_only(duplicates_from(pairs, 1, <<>>, <<>>))

find_duplicates(pairs) == duplicates_from(pairs, 1, <<>>, <<>>)

test_no_duplicate_label_definitions ==
    /\ pc \in LabelIntegrityIdle
    /\ result' = [duplicates |-> find_duplicates(all_labels(files, integrity.files))]
    /\ pc' = "dup_checked"
    /\ UNCHANGED <<access, files, labels, transitions, choices, visited, current,
                   choice_idx, step, stack, integrity>>

(* TestConfigVariableCoverageAudit.test_config_references_are_defined_or_builtin *)
test_config_references_are_defined_or_builtin ==
    /\ pc = "new"
    /\ \E order \in Orders(DOMAIN files) :
          LET content     == all_content(files, order)
              refs        == findall_set(content, ConfigRefKinds)
              definitions == findall_set(content, ConfigDefKinds)
          IN  result' = [undefined |-> (refs \ definitions) \ RENPY_BUILTIN_CONFIG]
    /\ pc' = "config_checked"
    /\ UNCHANGED <<access, files, labels, transitions, choices, visited, current,
                   choice_idx, step, stack, integrity>>

(* the author adds a line to a document; the suite then starts afresh *)
CorpusLines ==
    {Line("label", "nonexistent_label"), Line("jump", "nonexistent_label"),
     Line("label", "helper"), Line("call", "helper"), Line("call", "me"),
     Line("cfg_def", "name"), Line("cfg_ref", "name"), Line("cfg_ref", "has_autosave")}

RECURSIVE TotalLines(_, _)
TotalLines(fs, names) ==
    IF names = {} THEN 0
    ELSE LET f == CHOOSE x \in names : TRUE
         IN  Len(fs[f]) + TotalLines(fs, names \ {f})

AuthorAppend(f, line) ==
    /\ pc \in RefsIdle
    /\ TotalLines(files, DOMAIN files) < MaxCorpusLines
    /\ files' = [files EXCEPT ![f] = Append(@, line)]
    /\ pc' = "new"
    /\ integrity' = None
    /\ result' = None
    /\ UNCHANGED <<access, labels, transitions, choices, visited, current, choice_idx,
                   step, stack>>

InitRefs ==
    /\ files = [f \in {"script.rpy", "screens.rpy"} |-> <<>>]
    /\ pc = "new"
    /\ labels = <<>>
    /\ transitions = <<>>
    /\ choices = <<>>
    /\ visited = <<>>
    /\ current = None
    /\ choice_idx = 0
    /\ step = 0
    /\ stack = <<>>
    /\ integrity = None
    /\ access = AllReadable
    /\ result = None

NextRefs ==
    \/ LabelIntegrity_setUpClass
    \/ test_all_jump_targets_exist
    \/ test_all_call_targets_exist
    \/ test_no_duplicate_label_definitions
    \/ test_config_references_are_defined_or_builtin
    \/ \E f \in DOMAIN files, line \in CorpusLines : AuthorAppend(f, line)

SpecRefs == InitRefs /\ [][NextRefs]_vars

(* The graph class alone; its loops run to completion once started *)
NextGraph ==
    \/ Graph_setUpClass
    \/ ReachStart
    \/ ReachSkip
    \/ ReachVisit
    \/ ReachDone
    \/ test_no_dead_end_labels

SpecGraph ==
    Init /\ [][NextGraph]_vars /\ WF_vars(ReachSkip \/ ReachVisit \/ ReachDone)

----------------------------------------------------------------------------
(* Vocabulary of the properties, read off the text of the blocks *)

Script == files["script.rpy"]

Defined(name) == \E i \in 1..Len(labels) : labels[i][1] = name

BlockOf(name) == labels[CHOOSE i \in 1..Len(labels) : labels[i][1] = name][2]

JumpTextLines(content) == {i \in 1..Len(content) : content[i].k \in JumpTextKinds}

HasJumpText(content) == JumpTextLines(content) # {}

LastJumpTarget(content) ==
    content[CHOOSE i \in JumpTextLines(content) :
                \A j \in JumpTextLines(content) : j <= i].n

HasReturnLine(content) == \E i \in 1..Len(content) : content[i].k = "return"

HasMenuLine(content) == \E i \in 1..Len(content) : content[i].k = "menu"

Min(a, b) == IF a < b THEN a ELSE b

WalkIterates ==
    WalkNotFound \/ WalkStop \/ WalkAdvance \/ WalkExhausted

----------------------------------------------------------------------------
(* C1: the walk of _walk_path returns after at most 50 iterations whatever
   the graph and the choices are; a walk whose first 50 labels are all
   defined blocks with a jump (a cycle without terminal) makes exactly 50
   steps and returns (visited, False, "Max steps exceeded"), and only such a
   walk returns that error.  While walking, some branch of the loop is
   always enabled, and every iteration that does not return counts a step. *)
C1_BoundedSimulation ==
    /\ pc \in {"walking", "walk_returned"} =>
          /\ step <= 50
          /\ Len(visited) = step + 1
    /\ pc = "walking" => ENABLED WalkIterates
    /\ pc = "walk_returned" =>
          LET never_terminal ==
                  \A i \in 1..Min(Len(visited), 50) :
                      Defined(visited[i]) /\ HasJumpText(BlockOf(visited[i]))
          IN  /\ never_terminal =>
                    /\ step = 50
                    /\ result = Returned(visited, FALSE, MaxStepsExceeded)
              /\ result.error = MaxStepsExceeded => never_terminal /\ step = 50

C1_Witness ==
    /\ pc = "walk_returned"
    /\ choices = <<>>
    /\ result.error = MaxStepsExceeded
    /\ Len(result.visited) = 51

(* C2: an iteration that moves on without taking a choice, from a block
   with two or more jump targets, moves to the block's last jump target in
   text order: after "jump A" then "jump B" the next node is B. *)
C2_LastJumpWins ==
    [][(/\ pc = "walking"
        /\ step' = step + 1
        /\ choice_idx' = choice_idx
        /\ Cardinality(JumpTextLines(BlockOf(current))) >= 2)
       => current' = LastJumpTarget(BlockOf(current))]_vars

C2_Witness ==
    /\ Script = <<Line("label", "start"), Line("jump", "start"), Line("jump", "ending")>>
    /\ pc = "walking"
    /\ choices = <<>>
    /\ visited = <<"start", "ending">>

(* C3: the choices are consumed in order, one per iteration at a block that
   has a menu and a jump while choices remain; any other iteration leaves
   choice_idx alone, and moves to the last jump target. *)
C3_ChoicesInOrder ==
    [][pc = "walking" =>
        IF pc' = "walking" /\ step' = step + 1
        THEN LET content == BlockOf(current)
                 consumes == HasMenuLine(content) /\ choice_idx < Len(choices)
             IN  /\ HasJumpText(content)
                 /\ consumes =>
                       /\ choice_idx' = choice_idx + 1
                       /\ current' = choices[choice_idx']
                 /\ ~consumes =>
                       /\ choice_idx' = choice_idx
                       /\ current' = LastJumpTarget(content)
                 /\ choices' = choices
        ELSE choice_idx' = choice_idx /\ choices' = choices]_vars

C3_Witness ==
    /\ pc = "walking"
    /\ Len(choices) = 2
    /\ choice_idx = 2
    /\ step = 4
    /\ HasMenuLine(BlockOf(current))

(* C4: on the story graph of the game, the walk from start with the choice
   list of test_path_scholar returns within the budget, without error, and
   has ending_scholar in the visited sequence. *)
C4_ScholarPath ==
    (/\ Script = ScenarioScript
     /\ pc = "walk_returned"
     /\ result.visited[1] = "start"
     /\ choices = scholar_choices)
    => /\ result.error = NoError
       /\ \E i \in 1..Len(result.visited) : result.visited[i] = "ending_scholar"
       /\ step < 50

C4_Witness ==
    /\ Script = ScenarioScript
    /\ pc = "walk_returned"
    /\ result.visited[1] = "start"
    /\ choices = scholar_choices
    /\ result.error = NoError

(* C5: an iteration of the walk returns without error exactly when the
   current label is a defined block without jump target; the flag it
   returns is then whether the block has a return line; a block that has a
   jump target keeps the walk going, return line or not. *)
C5_StopsAtBlockWithoutJump ==
    [][(pc = "walking" /\ step < 50) =>
        LET stops == Defined(current) /\ ~HasJumpText(BlockOf(current))
        IN  /\ stops =>
                  /\ pc' = "walk_returned"
                  /\ result' = Returned(visited, HasReturnLine(BlockOf(current)), NoError)
            /\ ~stops => ~(pc' = "walk_returned" /\ result'.error = NoError)
            /\ (Defined(current) /\ HasJumpText(BlockOf(current))) => pc' = "walking"]_vars

C5_Witness ==
    /\ pc = "walk_returned"
    /\ result.error = NoError
    /\ result.has_return
    /\ Len(result.visited) >= 2
    /\ HasJumpText(BlockOf(result.visited[1]))

(* C6 as stated: whenever the walk has moved to a label that is no defined
   block, it returns the error naming that label, with flag False and the
   whole visited sequence. *)
C6_UndefinedAlwaysNamed ==
    (pc = "walk_returned" /\ ~Defined(current)) =>
        result = Returned(visited, FALSE, NotFound(current))

(* C6 amended: the label is named when one of the 50 iterations examines it;
   a label reached by the 50th step is not examined: the error is then
   "Max steps exceeded".  In both cases the flag is False and the visited
   sequence is whole, ending with that label. *)
C6_UndefinedLabelReported ==
    /\ pc \in {"walking", "walk_returned"} => current = Last(visited)
    /\ pc = "walking" /\ ~Defined(current) /\ step < 50 =>
          ENABLED WalkNotFound /\ ~ENABLED WalkAdvance /\ ~ENABLED WalkStop
    /\ (pc = "walk_returned" /\ ~Defined(current)) =>
          /\ Len(result.visited) = step + 1
          /\ Last(result.visited) = current
          /\ result = Returned(visited, FALSE,
                               IF step < 50 THEN NotFound(current)
                               ELSE MaxStepsExceeded)

C6_Witness ==
    /\ pc = "walk_returned"
    /\ ~Defined(current)
    /\ result.error = NotFound(current)
    /\ Len(result.visited) = 3
    /\ choice_idx = 1

----------------------------------------------------------------------------
(* Vocabulary of the graph properties: the jump edges of the built graph *)

Succ(n) ==
    UNION {transitions[i][2] : i \in {j \in 1..Len(transitions) : transitions[j][1] = n}}

NodeSet ==
    {"start"} \cup {transitions[i][1] : i \in 1..Len(transitions)}
    \cup UNION {transitions[i][2] : i \in 1..Len(transitions)}

RECURSIVE Closure(_, _)
Closure(S, k) ==
    IF k = 0 THEN S ELSE Closure(S \cup UNION {Succ(n) : n \in S}, k - 1)

(* the labels joined to start by a chain of zero or more jump edges *)
Connected == Closure({"start"}, Cardinality(NodeSet))

(* C7: the traversal of test_all_endings_reachable_from_start terminates on
   every graph, cycles and self-loops included: once started it reaches the
   end of the loop (the stack is empty); every iteration either adds one
   label that was not yet in visited, or adds nothing and shortens the
   stack; visited and the stack hold labels of the graph only. *)
C7_TraversalTerminates ==
    /\ (pc = "traversing") ~> (pc = "reach_done" /\ stack = <<>>)
    /\ [][(pc = "traversing" /\ pc' = "traversing") =>
            \/ \E n \in NodeSet \ visited : visited' = visited \cup {n}
            \/ visited' = visited /\ Len(stack') < Len(stack)]_vars
    /\ [](pc = "traversing" =>
            /\ visited \subseteq NodeSet
            /\ \A i \in 1..Len(stack) : stack[i] \in NodeSet)

C7_Witness ==
    /\ pc = "reach_done"
    /\ stack = <<>>
    /\ "start" \in Succ("start")
    /\ "mid" \in Succ("ending") /\ "ending" \in Succ("mid")
    /\ visited = {"start", "mid", "ending"}

(* C8: the traversal returns exactly the labels joined to start by a chain
   of zero or more jump edges, and reports as missing exactly the required
   endings that are not among them; a label whose only incoming path is
   absent from the graph is not returned. *)
C8_ReachableExact ==
    pc = "reach_done" =>
        /\ visited = Connected
        /\ result.missing = required_endings \ Connected

C8_Witness ==
    /\ pc = "reach_done"
    /\ Defined("ending")
    /\ Succ("start") = {"mid"}
    /\ Succ("mid") = {"start"}
    /\ visited = {"start", "mid"}

(* C9: the dead-end check flags a block iff the block has no outgoing jump
   target and no return line. *)
C9_DeadEndsFlagged ==
    pc = "dead_end_done" =>
        \A i \in 1..Len(labels) :
            (result.dead_end = labels[i][1])
            <=> (Succ(labels[i][1]) = {} /\ ~HasReturnLine(labels[i][2]))

----------------------------------------------------------------------------
(* Vocabulary of the reference properties, read off the documents *)

AllNames == {l.n : l \in CorpusLines}

Occurs(kinds, n) ==
    \E f \in DOMAIN files : \E i \in 1..Len(files[f]) :
        files[f][i].k \in kinds /\ files[f][i].n = n

(* C10: each reference check reports exactly the referenced names that have
   no definition in any document and are not exempt: jump targets without a
   label, call targets outside the stop-list without a label, config
   properties outside the built-in list without a define.  A lone jump to
   an undefined label is reported, and is not once the label is defined in
   whichever document. *)
C10_ReferencesMinusDefinitions ==
    /\ pc = "jump_checked" =>
          result.missing =
              {n \in AllNames : Occurs(JumpTextKinds, n) /\ ~Occurs({"label"}, n)}
    /\ pc = "call_checked" =>
          result.missing =
              {n \in AllNames : /\ Occurs({"call"}, n)
                                /\ ~Occurs({"label"}, n)
                                /\ n \notin call_stop_list}
    /\ pc = "config_checked" =>
          result.undefined =
              {n \in AllNames : /\ Occurs({"cfg_ref", "cfg_def"}, n)
                                /\ ~Occurs({"cfg_def"}, n)
                                /\ n \notin RENPY_BUILTIN_CONFIG}

C10_Witness ==
    /\ pc = "jump_checked"
    /\ files["script.rpy"] = <<Line("jump", "nonexistent_label")>>
    /\ files["screens.rpy"] = <<Line("label", "nonexistent_label")>>
    /\ result.missing = {}

(* number of definitions "label n:" in the documents of the corpus *)
RECURSIVE DefCount(_, _)
DefCount(n, names) ==
    IF names = {} THEN 0
    ELSE LET f == CHOOSE x \in names : TRUE
         IN  Cardinality({i \in 1..Len(files[f]) : files[f][i] = Line("label", n)})
             + DefCount(n, names \ {f})

DefinedIn(n, f) == \E i \in 1..Len(files[f]) : files[f][i] = Line("label", n)

(* C11: the duplicate check reports a violation iff some label name is
   defined more than once in the corpus, be it twice in one document; every
   entry names a label and the documents of two of its definitions (one
   document named twice has two definitions of the label), and a label with
   k definitions has k - 1 entries. *)
C11_DuplicatesReported ==
    pc = "dup_checked" =>
        LET d == result.duplicates
        IN  /\ (d # <<>>) <=> (\E n \in AllNames : DefCount(n, DOMAIN files) > 1)
            /\ \A i \in 1..Len(d) :
                  /\ DefinedIn(d[i][1], d[i][2])
                  /\ DefinedIn(d[i][1], d[i][3])
                  /\ d[i][2] = d[i][3] => DefCount(d[i][1], {d[i][2]}) > 1
            /\ \A n \in AllNames :
                  DefCount(n, DOMAIN files) > 0 =>
                      Cardinality({i \in 1..Len(d) : d[i][1] = n})
                          = DefCount(n, DOMAIN files) - 1

C11_Witness ==
    /\ pc = "dup_checked"
    /\ Len(result.duplicates) = 2
    /\ \E i \in 1..2 : result.duplicates[i][2] = result.duplicates[i][3]
    /\ \E i \in 1..2 : result.duplicates[i][2] # result.duplicates[i][3]

----------------------------------------------------------------------------
(* Style and screen checks over screens.rpy and the corpus.                *)
(*                                                                         *)
(*   kind        text of the line              matched by                  *)
(*   "style_is"  style x is p:     (column 0)  ^style\s+(\w+)\s+is\s+(\w+) *)
(*                                             ^style\s+x\s+is\s+p\b       *)
(*   "ShowMenu"      action ShowMenu("n")      ShowMenu\(['"](\w+)['"]\)   *)
(*   "screen"    screen n():       (column 0)  ^screen\s+(\w+)             *)
(*                                                                         *)
(* The name of a "style_is" line is the pair <<x, p>>.                     *)

MaxStyleLines == 2

(* TestNoRecursiveStyles.BASE_TO_GUI, in the order of the dict *)
BASE_TO_GUI ==
    << <<"bar", "gui_bar">>, <<"vbar", "gui_vbar">>, <<"scrollbar", "gui_scrollbar">>,
       <<"vscrollbar", "gui_vscrollbar">>, <<"slider", "gui_slider">>,
       <<"vslider", "gui_vslider">>, <<"button", "gui_button">>,
       <<"label", "gui_label">>, <<"frame", "gui_frame">> >>

(* re.search(rf'^style\s+{base}\s+is\s+{gui_variant}\b', screens, re.MULTILINE);
   without re.MULTILINE the pattern matches at the start of the text only *)
search_style_is_no_multiline(screens, base, gui_variant) ==
    Len(screens) > 0 /\ screens[1] = Line("style_is", <<base, gui_variant>>)

search_style_is(screens, base, gui_variant) ==
    \E i \in 1..Len(screens) : screens[i] = Line("style_is", <<base, gui_variant>>)

(* lines 112-119: assertIsNone inside the loop: the run ends at the first
   pair that matches, with the message that names the pair *)
RECURSIVE first_recursive_style(_, _)
first_recursive_style(screens, i) ==
    IF i > Len(BASE_TO_GUI) THEN <<>>
    ELSE IF search_style_is(screens, BASE_TO_GUI[i][1], BASE_TO_GUI[i][2])
    THEN <<BASE_TO_GUI[i]>>
    ELSE first_recursive_style(screens, i + 1)

StylesIdle ==
    {"new", "style_checked", "conflict_checked", "screens_ready", "showmenu_checked",
     "inherit_checked"}

(* TestNoRecursiveStyles.test_no_base_style_inherits_from_own_gui_variant,
   with cls.screens = read_file("screens.rpy") of setUpClass *)
test_no_base_style_inherits_from_own_gui_variant ==
    /\ pc \in StylesIdle
    /\ result' = [failures |-> first_recursive_style(files["screens.rpy"], 1)]
    /\ pc' = "style_checked"
    /\ UNCHANGED <<access, files, labels, transitions, choices, visited, current,
                   choice_idx, step, stack, integrity>>

(* re.findall(r'^style\s+(\w+)\s+is\s+(\w+)', screens, re.MULTILINE) *)
RECURSIVE findall_style_is(_)
findall_style_is(screens) ==
    IF screens = <<>> THEN <<>>
    ELSE (IF Head(screens).k = "style_is" THEN <<Head(screens).n>> ELSE <<>>)
         \o findall_style_is(Tail(screens))

(* lines 1159-1169: an entry <<style_name, style_parents[style_name], parent>>
   stands for "style style_name: first 'is ...', then 'is parent'" *)
RECURSIVE conflicts_from(_, _, _, _)
conflicts_from(declarations, i, style_parents, conflicts) ==
    IF i > Len(declarations) THEN conflicts
    ELSE LET style_name == declarations[i][1]
             parent     == declarations[i][2]
         IN  IF DictHas(style_parents, style_name)
             THEN conflicts_from(declarations, i + 1, style_parents,
                                 IF DictGet(style_parents, style_name) # parent
                                 THEN Append(conflicts,
                                             <<style_name,
                                               DictGet(style_parents, style_name), parent>>)
                                 ELSE conflicts)
             ELSE conflicts_from(declarations, i + 1,
                                 DictSet(style_parents, style_name, parent), conflicts)

find_conflicts(declarations) == conflicts_from(declarations, 1, <<>>, <<>>)

(* TestStyleConsistency.test_no_conflicting_style_inheritance,
   with cls.screens = read_file("screens.rpy") of setUpClass *)
test_no_conflicting_style_inheritance ==
    /\ pc \in StylesIdle
    /\ result' = [conflicts |-> find_conflicts(findall_style_is(files["screens.rpy"]))]
    /\ pc' = "conflict_checked"
    /\ UNCHANGED <<access, files, labels, transitions, choices, visited, current,
                   choice_idx, step, stack, integrity>>

(* TestScreenDefinitions.setUpClass: "\n".join(cls.files.values()) and the
   sets found in it *)
ScreenDefinitions_setUpClass ==
    /\ pc \in StylesIdle
    /\ \E order \in Orders(DOMAIN files) :
          LET content == all_content(files, order)
          IN  integrity' = [defined_screens |-> findall_set(content, {"screen"}),
                            showmenu_refs   |-> findall_set(content, {"ShowMenu"})]
    /\ pc' = "screens_ready"
    /\ UNCHANGED <<access, files, labels, transitions, choices, visited, current,
                   choice_idx, step, stack, result>>

(* lines 607-608: assertIn inside the loop over a set: the run ends at the
   first target of the iteration order that is no defined screen *)
RECURSIVE first_undefined(_, _)
first_undefined(order, defined) ==
    IF order = <<>> THEN <<>>
    ELSE IF Head(order) \notin defined THEN <<Head(order)>>
    ELSE first_undefined(Tail(order), defined)

(* TestScreenDefinitions.test_showmenu_targets_exist *)
test_showmenu_targets_exist ==
    /\ pc \in {"screens_ready", "showmenu_checked"}
    /\ \E order \in Orders(integrity.showmenu_refs) :
          result' = [failures |-> first_undefined(order, integrity.defined_screens)]
    /\ pc' = "showmenu_checked"
    /\ UNCHANGED <<access, files, labels, transitions, choices, visited, current,
                   choice_idx, step, stack, integrity>>

(* the lines of the style and screen documents *)
StyleLines ==
    {Line("style_is", BASE_TO_GUI[i]) : i \in 1..Len(BASE_TO_GUI)}
    \cup {Line("style_is", <<"bar", "default">>),
          Line("style_is", <<"choice_button", "button">>),
          Line("style_is", <<"choice_button", "default">>),
          Line("ShowMenu", "save"), Line("ShowMenu", "load"), Line("screen", "save")}

InitStyles ==
    /\ \E a \in SeqsUpTo(StyleLines, MaxStyleLines), b \in SeqsUpTo(StyleLines, 1) :
          files = [f \in {"screens.rpy", "script.rpy"} |->
                      IF f = "screens.rpy" THEN a ELSE b]
    /\ pc = "new"
    /\ labels = <<>>
    /\ transitions = <<>>
    /\ choices = <<>>
    /\ visited = <<>>
    /\ current = None
    /\ choice_idx = 0
    /\ step = 0
    /\ stack = <<>>
    /\ integrity = None
    /\ access = AllReadable
    /\ result = None

NextStyles ==
    \/ test_no_base_style_inherits_from_own_gui_variant
    \/ test_no_conflicting_style_inheritance
    \/ ScreenDefinitions_setUpClass
    \/ test_showmenu_targets_exist

SpecStyles == InitStyles /\ [][NextStyles]_vars

(* Vocabulary of the style properties, read off the documents *)

Declared(f, x, p) == \E i \in 1..Len(files[f]) : files[f][i] = Line("style_is", <<x, p>>)

TablePairs == {BASE_TO_GUI[i] : i \in 1..Len(BASE_TO_GUI)}

(* the table entries that screens.rpy declares *)
Offending == {t \in TablePairs : Declared("screens.rpy", t[1], t[2])}

StyleNamesOf(f) == {files[f][i].n[1] : i \in {j \in 1..Len(files[f]) : files[f][j].k = "style_is"}}

ParentsOf(f, x) ==
    {files[f][i].n[2] : i \in {j \in 1..Len(files[f]) :
                                  files[f][j].k = "style_is" /\ files[f][j].n[1] = x}}

(* C12: the check of the base styles fails exactly when screens.rpy holds a
   declaration "style base is gui_base" for a pair of BASE_TO_GUI, whichever
   pair and wherever in the document; a failure names one pair of the table
   that is declared; with a single offending entry there is exactly one
   violation and it names that entry's base and gui variant. *)
C12_BaseGuiStyleFails ==
    pc = "style_checked" =>
        /\ (result.failures # <<>>) <=> (Offending # {})
        /\ Len(result.failures) <= 1
        /\ \A i \in 1..Len(result.failures) : result.failures[i] \in Offending
        /\ \A t \in TablePairs : Offending = {t} => result.failures = <<t>>

C12_Witness ==
    /\ pc = "style_checked"
    /\ files["screens.rpy"] = <<Line("style_is", <<"bar", "default">>),
                                Line("style_is", <<"frame", "gui_frame">>)>>
    /\ result.failures = << <<"frame", "gui_frame">> >>

(* C13: the conflict check reports a conflict iff some style name is
   declared with two different parents in the corpus, in whichever
   documents the two declarations stand. *)
C13_ConflictsAcrossCorpus ==
    pc = "conflict_checked" =>
        ((result.conflicts # <<>>)
         <=> \E x \in UNION {StyleNamesOf(f) : f \in DOMAIN files} :
                Cardinality(UNION {ParentsOf(f, x) : f \in DOMAIN files}) > 1)

(* C15: a validator run reports every offender: the style check all the
   offending table entries, the ShowMenu check all the targets that are no
   defined screen. *)
C15_FullBatchReported ==
    /\ pc = "style_checked" =>
          {result.failures[i] : i \in 1..Len(result.failures)} = Offending
    /\ pc = "showmenu_checked" =>
          {result.failures[i] : i \in 1..Len(result.failures)}
              = integrity.showmenu_refs \ integrity.defined_screens

----------------------------------------------------------------------------
(* Interpolation checks.  A quoted string is a sequence of tokens: the     *)
(* brackets "[" and "]" and identifiers (two identifiers in a row are two  *)
(* words with a blank between them).  Each pattern is modelled by the      *)
(* token sequences it matches:                                             *)
(*                                                                         *)
(*   MODIFIER_PATTERN                            "[", identifier, "]"      *)
(*   \[[A-Z][a-zA-Z_]*\]              "[", capitalised identifier, "]"     *)
(*   (?<!\[)\[(?!prefix_)[A-Z][a-zA-Z]*\]        the same, with no "["     *)
(*                                               right before it           *)
(*                                                                         *)
(*   kind        text of the line                                          *)
(*   "text"          text "<tokens>"     the name is the token sequence    *)
(*   "default"   default n = 0                                             *)

MaxTokens == 4

Words == {"Name", "Knowledge", "knowledge"}

Tokens == {"[", "]"} \cup Words

(* str.isupper() of the first character, and str.lower() *)
first_isupper(w) == w \in {"Name", "Knowledge"}

lower(w) ==
    CASE w = "Name" -> "name"
      [] w = "Knowledge" -> "knowledge"
      [] OTHER -> w

(* TestTextInterpolation.KNOWN_VARIABLES *)
KNOWN_VARIABLES ==
    {"player_name", "trust_elara", "trust_kael", "trust_sirin", "knowledge", "duty",
     "freedom", "power", "true_route", "renpy", "config", "gui", "persistent", "count",
     "page", "eid", "ename", "etheme", "slot", "screen_name", "lang"}

(* builtin_roots of test_script_interpolations_use_defined_variables *)
builtin_roots ==
    {"renpy", "config", "gui", "persistent", "store", "player_name", "_", "h", "d", "i"}

(* MODIFIER_PATTERN matches at token i *)
modifier_match(string, i) ==
    /\ i + 2 <= Len(string)
    /\ string[i] = "[" /\ string[i + 1] \in Words /\ string[i + 2] = "]"

(* _extract_interpolations: the roots of the matches, in text order *)
RECURSIVE extract_from(_, _)
extract_from(string, i) ==
    IF i > Len(string) THEN <<>>
    ELSE (IF modifier_match(string, i) THEN <<string[i + 1]>> ELSE <<>>)
         \o extract_from(string, i + 1)

extract_interpolations(string) == extract_from(string, 1)

(* the quoted strings of a document, in text order *)
RECURSIVE strings_of(_)
strings_of(content) ==
    IF content = <<>> THEN <<>>
    ELSE (IF Head(content).k = "text" THEN <<Head(content).n>> ELSE <<>>)
         \o strings_of(Tail(content))

(* suspicious_pattern: the string holds "[", capitalised identifier, "]" *)
suspicious(string) ==
    \E i \in 1..Len(string) : modifier_match(string, i) /\ first_isupper(string[i + 1])

(* the loop ends at the first failure: its root is the one reported *)
first_of(failing) == IF failing = <<>> THEN <<>> ELSE <<Head(failing)>>

RECURSIVE flatten(_)
flatten(ss) == IF ss = <<>> THEN <<>> ELSE Head(ss) \o flatten(Tail(ss))

InterpIdle == {"new", "screen_text_checked", "script_checked", "gallery_checked"}

(* TestTextInterpolation.test_no_undefined_capitalised_variables_in_screen_text:
   self.fail at the first capitalised root whose lower case is no known variable *)
test_no_undefined_capitalised_variables_in_screen_text ==
    /\ pc \in InterpIdle
    /\ LET screens == files["screens.rpy"]
           found   == SelectSeq(strings_of(screens), suspicious)
           roots   == flatten([i \in 1..Len(found) |-> extract_interpolations(found[i])])
           Fails(root) == first_isupper(root) /\ lower(root) \notin KNOWN_VARIABLES
       IN  result' = [flagged |-> first_of(SelectSeq(roots, Fails))]
    /\ pc' = "screen_text_checked"
    /\ UNCHANGED <<access, files, labels, transitions, choices, visited, current,
                   choice_idx, step, stack, integrity>>

(* TestTextInterpolation.test_script_interpolations_use_defined_variables:
   assertIn fails at the first root that is neither built in nor defined *)
test_script_interpolations_use_defined_variables ==
    /\ pc \in InterpIdle
    /\ LET script       == files["script.rpy"]
           defined_vars == findall_set(script, {"default"}) \cup KNOWN_VARIABLES
           found        == strings_of(script)
           roots   == flatten([i \in 1..Len(found) |-> extract_interpolations(found[i])])
           Fails(root) == root \notin builtin_roots /\ root \notin defined_vars
       IN  result' = [flagged |-> first_of(SelectSeq(roots, Fails))]
    /\ pc' = "script_checked"
    /\ UNCHANGED <<access, files, labels, transitions, choices, visited, current,
                   choice_idx, step, stack, integrity>>

(* TestEndingGalleryScreen.setUpClass: the text of screens.rpy after the line
   "screen ending_gallery():" up to the next screen or the end *)
RECURSIVE until_screen(_)
until_screen(content) ==
    IF content = <<>> \/ Head(content).k = "screen" THEN <<>>
    ELSE <<Head(content)>> \o until_screen(Tail(content))

RECURSIVE gallery_of(_)
gallery_of(screens) ==
    IF screens = <<>> THEN <<>>
    ELSE IF Head(screens) = Line("screen", "ending_gallery") THEN until_screen(Tail(screens))
    ELSE gallery_of(Tail(screens))

(* re.findall(r'(?<!\[)\[(?!prefix_)[A-Z][a-zA-Z]*\]', ...) in one string *)
RECURSIVE bare_capitals_from(_, _)
bare_capitals_from(string, i) ==
    IF i > Len(string) THEN <<>>
    ELSE (IF /\ modifier_match(string, i)
             /\ first_isupper(string[i + 1])
             /\ (i = 1 \/ string[i - 1] # "[")
          THEN <<string[i + 1]>> ELSE <<>>)
         \o bare_capitals_from(string, i + 1)

(* TestEndingGalleryScreen.test_no_bare_capital_interpolation_in_gallery *)
test_no_bare_capital_interpolation_in_gallery ==
    /\ pc \in InterpIdle
    /\ LET found == strings_of(gallery_of(files["screens.rpy"]))
       IN  result' = [flagged |->
                        flatten([i \in 1..Len(found) |-> bare_capitals_from(found[i], 1)])]
    /\ pc' = "gallery_checked"
    /\ UNCHANGED <<access, files, labels, transitions, choices, visited, current,
                   choice_idx, step, stack, integrity>>

(* one quoted string, displayed by the gallery screen and said in the
   script; the script may define the variable Name *)
InitInterp ==
    /\ \E string \in SeqsUpTo(Tokens, MaxTokens),
          defaults \in {<<>>, <<Line("default", "Name")>>} :
          files = [f \in {"screens.rpy", "script.rpy"} |->
                      IF f = "screens.rpy"
                      THEN <<Line("screen", "ending_gallery"), Line("text", string)>>
                      ELSE defaults \o <<Line("text", string)>>]
    /\ pc = "new"
    /\ labels = <<>>
    /\ transitions = <<>>
    /\ choices = <<>>
    /\ visited = <<>>
    /\ current = None
    /\ choice_idx = 0
    /\ step = 0
    /\ stack = <<>>
    /\ integrity = None
    /\ access = AllReadable
    /\ result = None

NextInterp ==
    \/ test_no_undefined_capitalised_variables_in_screen_text
    \/ test_script_interpolations_use_defined_variables
    \/ test_no_bare_capital_interpolation_in_gallery

SpecInterp == InitInterp /\ [][NextInterp]_vars

(* Vocabulary of the interpolation properties *)

TheString == files["screens.rpy"][2].n

(* "[", identifier, "]" at token i, as the engine reads the string: after
   "[[" (a literal bracket) or not *)
BracketedAt(i) ==
    /\ i + 2 <= Len(TheString)
    /\ TheString[i] = "[" /\ TheString[i + 1] \in Words /\ TheString[i + 2] = "]"

RECURSIVE OpensAt(_)
OpensAt(i) ==
    (* the "[" at token i opens an interpolation: it is not the second
       bracket of an escape "[[" *)
    i = 1 \/ TheString[i - 1] # "[" \/ ~OpensAt(i - 1)

EscapedAt(i) == BracketedAt(i) /\ ~OpensAt(i)

UnescapedAt(i) == BracketedAt(i) /\ OpensAt(i)

ScriptDefined == {"knowledge"} \cup {l.n : l \in {x \in Range(files["script.rpy"]) : x.k = "default"}}

(* C14: no interpolation check flags a string whose bracketed names are all
   escaped ("[[Name]"), and each check flags a string that holds an
   unescaped "[Name]" with Name capitalised and no defined variable. *)
C14_EscapedNeverFlagged ==
    pc \in {"screen_text_checked", "script_checked", "gallery_checked"} =>
        /\ ((\E i \in 1..Len(TheString) : EscapedAt(i))
            /\ ~(\E i \in 1..Len(TheString) : UnescapedAt(i)))
           => result.flagged = <<>>
        /\ (\E i \in 1..Len(TheString) :
               /\ UnescapedAt(i)
               /\ first_isupper(TheString[i + 1])
               /\ TheString[i + 1] \notin
                      (IF pc = "script_checked" THEN ScriptDefined ELSE {"knowledge"}))
           => result.flagged # <<>>

----------------------------------------------------------------------------
(* The three classes over one corpus: every operation can be run again     *)
(* after it, or another operation of its class, has run                    *)

(* a jump graph where one label is pushed twice before it is visited *)
DiamondScript ==
    GraphBlock("start", {"mid", "ending"}) \o GraphBlock("mid", {"ending"})
    \o GraphBlock("ending", {})

InitTwice ==
    /\ \E s \in SeqsUpTo(ScriptLines, MaxLines - 1) \cup {ScenarioScript, DiamondScript},
          t \in {<<>>, <<Line("label", "start")>>, <<Line("jump", "ending")>>} :
          files = [f \in {"script.rpy", "screens.rpy"} |->
                      IF f = "script.rpy" THEN s ELSE t]
    /\ pc = "new"
    /\ labels = <<>>
    /\ transitions = <<>>
    /\ choices = <<>>
    /\ visited = <<>>
    /\ current = None
    /\ choice_idx = 0
    /\ step = 0
    /\ stack = <<>>
    /\ integrity = None
    /\ access = AllReadable
    /\ result = None

NextTwice ==
    \/ E2E_setUpClass
    \/ \E start_label \in Names, chs \in ShortChoices \cup TestChoices :
          WalkCall(start_label, chs)
    \/ WalkNotFound
    \/ WalkStop
    \/ WalkAdvance
    \/ WalkExhausted
    \/ Graph_setUpClass
    \/ ReachStart
    \/ ReachSkip
    \/ ReachVisit
    \/ ReachDone
    \/ test_no_dead_end_labels
    \/ LabelIntegrity_setUpClass
    \/ test_all_jump_targets_exist
    \/ test_all_call_targets_exist
    \/ test_no_duplicate_label_definitions

SpecTwice == InitTwice /\ [][NextTwice]_vars

(* C16: a run leaves nothing behind for the next run.  However many runs
   went before, a walk returns the value that _walk_path's code gives for
   its arguments and the graph alone, and the traversal the labels joined
   to start; a test run again right after itself reports the same result;
   setting a class up again gives the same graph and the same sets of
   names; and no operation changes the corpus or, once built, the graph. *)
C16_Idempotent ==
    /\ [](pc = "walk_returned" =>
            result = walk_path(labels, visited[1], choices, 0, <<visited[1]>>, 50))
    /\ [](pc = "reach_done" => result = [missing |-> required_endings \ Connected])
    /\ [][(pc = pc' /\ pc \in {"jump_checked", "call_checked", "dup_checked",
                               "dead_end_done"})
          => result' = result]_vars
    /\ [][(pc \in LabelIntegrityIdle /\ pc' = "refs_ready") =>
            /\ integrity'.defined_labels = integrity.defined_labels
            /\ integrity'.jump_targets = integrity.jump_targets
            /\ integrity'.call_targets = integrity.call_targets]_vars
    /\ [][files' = files /\ (pc # "new" => labels' = labels /\ transitions' = transitions)]_vars

C16_Witness ==
    /\ pc = "walk_returned"
    /\ Script = ScenarioScript
    /\ choices = guardian_choices
    /\ result.visited[1] = "start"
    /\ choice_idx >= 2
    /\ result.error = NoError

----------------------------------------------------------------------------
(* the names that some line of the script holding "jump n" gives *)
JumpNamed == {Script[i].n : i \in {j \in 1..Len(Script) : Script[j].k \in {"jump", "say_jump", "x_jump"}}}

CallNamed == {Script[i].n : i \in {j \in 1..Len(Script) : Script[j].k = "call"}}

(* C17: calls are no edges of the graph.  A block without any "jump n" has
   no outgoing edge, whatever it calls; every edge leads to a name that a
   "jump n" of the script gives; and the traversal returns, besides start,
   only such names: a label that is called and never jumped to is not
   returned. *)
C17_CallsAreNoEdges ==
    /\ pc \in GraphIdle \cup {"traversing"} =>
          /\ \A i \in 1..Len(labels) :
                ~HasJumpText(labels[i][2]) => Succ(labels[i][1]) = {}
          /\ \A i \in 1..Len(transitions) : transitions[i][2] \subseteq JumpNamed
    /\ pc = "reach_done" =>
          \A n \in CallNamed \ (JumpNamed \cup {"start"}) : n \notin visited

C17_Witness ==
    /\ pc = "reach_done"
    /\ Script = <<Line("label", "start"), Line("call", "ending"), Line("label", "ending")>>
    /\ visited = {"start"}
    /\ Succ("start") = {}

----------------------------------------------------------------------------
(* the offsets (0-based) of the label lines of the script, ascending *)
LabelOffsets == {i - 1 : i \in {j \in 1..Len(Script) : Script[j].k = "label"}}

RECURSIVE BlocksText(_)
BlocksText(d) == IF d = <<>> THEN <<>> ELSE Head(d)[2] \o BlocksText(Tail(d))

(* C20: the blocks of the built graph partition the script: there is one
   block for every label definition, every block starts with a label line
   and holds no other, and the blocks, laid end to end in the order they
   were built, are the script from its first label line to its end (the
   text before it is in no block); also when a name is defined twice. *)
C20_BlocksPartition ==
    pc \in GraphIdle =>
        /\ Len(labels) = Cardinality(LabelOffsets)
        /\ \A i \in 1..Len(labels) :
              /\ labels[i][2] # <<>>
              /\ labels[i][2][1] = Line("label", labels[i][1])
              /\ \A j \in 2..Len(labels[i][2]) : labels[i][2][j].k # "label"
        /\ BlocksText(labels) =
              (IF LabelOffsets = {} THEN <<>>
               ELSE LET first == CHOOSE o \in LabelOffsets : \A q \in LabelOffsets : o <= q
                    IN  Slice(Script, first, Len(Script)))

----------------------------------------------------------------------------
(* read_file and read_all_rpy_files over a GAME_DIR that may be missing and
   whose files may be unreadable (open() or the UTF-8 decoding raises) *)

(* the names os.listdir may give *)
EntryNames == {"script.rpy", "screens.rpy", "notes.txt"}

(* fname.endswith(".rpy") *)
endswith_rpy(fname) == fname \in {"script.rpy", "screens.rpy"}

(* the value of the call: the dict that is returned, or the exception that
   leaves the function, which carries no dict *)
Loaded(d) == [ok |-> TRUE, files |-> d]

Raised(what) == [ok |-> FALSE, error |-> what]

(* lines 40-43: the loop over os.listdir(GAME_DIR); read_file raises at an
   unreadable file and the exception is caught nowhere *)
RECURSIVE load_skipping_unreadable(_, _, _, _)
load_skipping_unreadable(fs, acc, listing, loaded) ==
    IF listing = <<>> THEN Loaded(loaded)
    ELSE LET fname == Head(listing)
         IN  IF endswith_rpy(fname) /\ fname \notin acc.unreadable
             THEN load_skipping_unreadable(fs, acc, Tail(listing),
                                           DictSet(loaded, fname, fs[fname]))
             ELSE load_skipping_unreadable(fs, acc, Tail(listing), loaded)

RECURSIVE load_from(_, _, _, _)
load_from(fs, acc, listing, loaded) ==
    IF listing = <<>> THEN Loaded(loaded)
    ELSE LET fname == Head(listing)
         IN  IF endswith_rpy(fname)
             THEN IF fname \in acc.unreadable THEN Raised(fname)
                  ELSE load_from(fs, acc, Tail(listing), DictSet(loaded, fname, fs[fname]))
             ELSE load_from(fs, acc, Tail(listing), loaded)

load_ignoring_errors(fs, acc, listing) ==
    IF ~acc.dir_exists THEN Raised("GAME_DIR")
    ELSE load_skipping_unreadable(fs, acc, listing, <<>>)

(* lines 37-43; os.listdir raises when GAME_DIR is missing *)
read_all_rpy_files(fs, acc, listing) ==
    IF ~acc.dir_exists THEN Raised("GAME_DIR")
    ELSE load_from(fs, acc, listing, <<>>)

(* a caller's files = read_all_rpy_files() *)
LoadCorpus ==
    /\ pc \in {"new", "loaded"}
    /\ \E listing \in Orders(DOMAIN files) :
          result' = read_all_rpy_files(files, access, listing)
    /\ pc' = "loaded"
    /\ UNCHANGED <<access, files, labels, transitions, choices, visited, current,
                   choice_idx, step, stack, integrity>>

FileTexts == {<<>>, <<Line("label", "start")>>}

InitLoad ==
    /\ \E names \in SUBSET EntryNames :
          /\ files \in [names -> FileTexts]
          /\ access \in [dir_exists : BOOLEAN, unreadable : SUBSET names]
          /\ ~access.dir_exists => names = {}
    /\ pc = "new"
    /\ labels = <<>>
    /\ transitions = <<>>
    /\ choices = <<>>
    /\ visited = <<>>
    /\ current = None
    /\ choice_idx = 0
    /\ step = 0
    /\ stack = <<>>
    /\ integrity = None
    /\ result = None

NextLoad == LoadCorpus

SpecLoad == InitLoad /\ [][NextLoad]_vars

(* the script documents of the directory *)
RpyEntries == {f \in DOMAIN files : f \in {"script.rpy", "screens.rpy"}}

(* C18: the loader returns the mapping of every .rpy document of the
   directory to its text, and of nothing else, when the directory exists and
   every .rpy file can be read; when the directory is missing or some .rpy
   file cannot be read or decoded it raises, and no mapping, partial or
   not, is returned. *)
C18_AllOrNothing ==
    pc = "loaded" =>
        IF access.dir_exists /\ RpyEntries \cap access.unreadable = {}
        THEN /\ result.ok
             /\ Len(result.files) = Cardinality(RpyEntries)
             /\ \A f \in RpyEntries :
                   \E i \in 1..Len(result.files) : result.files[i] = <<f, files[f]>>
        ELSE /\ ~result.ok
             /\ DOMAIN result = {"ok", "error"}
             /\ result.error \in (RpyEntries \cap access.unreadable) \cup {"GAME_DIR"}
             /\ result.error = "GAME_DIR" <=> ~access.dir_exists

C18_Witness ==
    /\ pc = "loaded"
    /\ ~result.ok
    /\ result.error = "screens.rpy"
    /\ "script.rpy" \in DOMAIN files \ access.unreadable
    /\ "notes.txt" \in DOMAIN files

----------------------------------------------------------------------------
(* generate_gui_pngs.make_png.  Bytes are the numbers 0..255 and a byte    *)
(* string is a sequence of them.                                           *)

MaxDim == 2

(* bitwise exclusive or of two naturals *)
RECURSIVE xor(_, _)
xor(a, b) ==
    IF a = 0 THEN b
    ELSE IF b = 0 THEN a
    ELSE 2 * xor(a \div 2, b \div 2) + ((a + b) % 2)

(* struct.pack('>I', n) *)
pack_I(n) == <<(n \div 16777216) % 256, (n \div 65536) % 256, (n \div 256) % 256, n % 256>>

(* A 32-bit word is kept as its four bytes, most significant first, which
   is also what struct.pack('>I', word) gives. *)

(* word >> 1 *)
shift_right(w) ==
    <<w[1] \div 2, (w[1] % 2) * 128 + w[2] \div 2, (w[2] % 2) * 128 + w[3] \div 2,
      (w[3] % 2) * 128 + w[4] \div 2>>

xor_word(v, w) == <<xor(v[1], w[1]), xor(v[2], w[2]), xor(v[3], w[3]), xor(v[4], w[4])>>

(* zlib.crc32: the reflected CRC-32 of polynomial 0xEDB88320, bit by bit *)
RECURSIVE crc_shift(_, _)
crc_shift(c, bits) ==
    IF bits = 0 THEN c
    ELSE crc_shift(IF c[4] % 2 = 1
                   THEN xor_word(shift_right(c), <<237, 184, 131, 32>>)
                   ELSE shift_right(c),
                   bits - 1)

(* zlib's table of the CRC of each single byte *)
crc_table == [b \in 0..255 |-> crc_shift(<<0, 0, 0, b>>, 8)]

(* one byte: c = crc_table[(c ^ byte) & 0xFF] ^ (c >> 8) *)
crc_byte(c, byte) == xor_word(crc_table[xor(c[4], byte)], <<0, c[1], c[2], c[3]>>)

(* The bytes of data are consumed in order.  st is the register and the
   number of bytes consumed so far; the bytes up to position hi are
   consumed next, one half after the other, which keeps the evaluation
   shallow and changes nothing in the order. *)
RECURSIVE crc_update(_, _, _)
crc_update(st, data, hi) ==
    IF st[2] >= hi THEN st
    ELSE IF st[2] + 1 = hi THEN <<crc_byte(st[1], data[hi]), hi>>
    ELSE crc_update(crc_update(st, data, (st[2] + hi) \div 2), data, hi)

(* struct.pack('>I', zlib.crc32(data) & 0xFFFFFFFF) *)
crc32(data) ==
    xor_word(crc_update(<< <<255, 255, 255, 255>>, 0 >>, data, Len(data))[1],
             <<255, 255, 255, 255>>)

(* one byte of Adler-32: the two sums modulo 65521 *)
adler_byte(s, byte) ==
    LET a2 == (s[1] + byte) % 65521
    IN  <<a2, (s[2] + a2) % 65521>>

RECURSIVE adler_update(_, _, _)
adler_update(st, data, hi) ==
    IF st[2] >= hi THEN st
    ELSE IF st[2] + 1 = hi THEN <<adler_byte(st[1], data[hi]), hi>>
    ELSE adler_update(adler_update(st, data, (st[2] + hi) \div 2), data, hi)

(* the Adler-32 checksum that ends a zlib stream, most significant byte first *)
adler32(data) ==
    LET s == adler_update(<< <<1, 0>>, 0 >>, data, Len(data))[1]
    IN  <<s[2] \div 256, s[2] % 256, s[1] \div 256, s[1] % 256>>

(* zlib.compress(data, 9): a zlib stream that inflates to data.  The block
   type deflate chooses is not modelled; the stream is taken in its stored
   form: header 78 DA, one final stored block (01, LEN, ~LEN, the data),
   Adler-32.  Only the framing of the stream is relied on. *)
zlib_compress(data) ==
    <<120, 218, 1, Len(data) % 256, Len(data) \div 256,
      255 - (Len(data) % 256), 255 - (Len(data) \div 256)>>
    \o data \o adler32(data)

(* lines 19-22: the inner function chunk; len(c) where len(data) is meant
   counts the four bytes of the type too *)
chunk_length_of_c(chunk_type, data) ==
    LET c == chunk_type \o data
    IN  pack_I(Len(c)) \o c \o crc32(c)

chunk(chunk_type, data) ==
    LET c == chunk_type \o data
    IN  pack_I(Len(data)) \o c \o crc32(c)

(* b'\x89PNG\r\n\x1a\n', line 25 *)
sig == <<137, 80, 78, 71, 13, 10, 26, 10>>

IHDR == <<73, 72, 68, 82>>

IDAT == <<73, 68, 65, 84>>

IEND == <<73, 69, 78, 68>>

(* lines 32-38: one row is the filter byte 0 and four bytes per pixel *)
RECURSIVE pixels_of_row(_, _, _, _)
pixels_of_row(pixels_func, y, x, width) ==
    IF x >= width THEN <<>>
    ELSE pixels_func[<<x, y>>] \o pixels_of_row(pixels_func, y, x + 1, width)

RECURSIVE raw_rows(_, _, _, _)
raw_rows(pixels_func, y, width, height) ==
    IF y >= height THEN <<>>
    ELSE (<<0>> \o pixels_of_row(pixels_func, y, 0, width))
         \o raw_rows(pixels_func, y + 1, width, height)

(* width and height are arguments of the caller and Python's integers have
   no width: such a number is kept as two limbs <<hi, lo>> that stand for
   hi * 65536 + lo, with lo in 0..65535 *)
limbs(n) == <<n \div 65536, n % 65536>>

(* the number as range() takes it; asked of numbers the loops can run over *)
int_of(d) == d[1] * 65536 + d[2]

(* struct.pack of line 28 raises struct.error for a number outside
   0 <= number <= 4294967295 *)
fits_I(d) == d[1] >= 0 /\ d[1] < 65536

raises_struct_error(width, height) == ~fits_I(width) \/ ~fits_I(height)

(* struct.pack('>I', d) of a number of two limbs *)
pack_I_limbs(d) == <<d[1] \div 256, d[1] % 256, d[2] \div 256, d[2] % 256>>

(* the same with the least significant byte first *)
ihdr_data_little_endian(width, height) ==
    <<width[2] % 256, width[2] \div 256, width[1] % 256, width[1] \div 256,
      height[2] % 256, height[2] \div 256, height[1] % 256, height[1] \div 256,
      8, 6, 0, 0, 0>>

(* struct.pack('>IIBBBBB', width, height, 8, 6, 0, 0, 0), line 28 *)
ihdr_data(width, height) ==
    pack_I_limbs(width) \o pack_I_limbs(height) \o <<8, 6, 0, 0, 0>>

(* lines 14-46, for arguments line 28 does not raise on *)
make_png(width, height, pixels_func) ==
    LET ihdr       == chunk(IHDR, ihdr_data(width, height))
        raw_data   == raw_rows(pixels_func, 0, int_of(width), int_of(height))
        compressed == zlib_compress(raw_data)
        idat       == chunk(IDAT, compressed)
        iend       == chunk(IEND, <<>>)
    IN  sig \o ihdr \o idat \o iend

(* pixel functions: solid_color(r, g, b, a) of lines 49-53 for colours of
   main(), and functions of two colours that depend on x and y *)
Colours ==
    {<<20, 20, 30, 200>>, <<25, 25, 35, 210>>, <<15, 15, 25, 220>>, <<15, 15, 25, 180>>,
     <<180, 180, 180, 255>>, <<0, 0, 0, 0>>, <<255, 255, 255, 255>>}

Pixels == (0..MaxDim) \X (0..MaxDim)

solid_color(c) == [xy \in Pixels |-> c]

two_colours(c, d, kind) ==
    [xy \in Pixels |->
        IF (CASE kind = "x" -> xy[1] % 2
              [] kind = "y" -> xy[2] % 2
              [] OTHER -> (xy[1] + xy[2]) % 2) = 0
        THEN c ELSE d]

PixelFuncs ==
    {solid_color(c) : c \in Colours}
    \cup {two_colours(<<0, 0, 0, 0>>, d, kind) :
            d \in Colours \ {<<0, 0, 0, 0>>}, kind \in {"x", "y", "xy"}}

StructError == "struct.error"

(* save_png, lines 56-63: the file is written with the bytes of make_png;
   when make_png raises, line 58 ends the call and nothing is written.
   The arguments of the call are kept in its frame. *)
save_png(path, width, height, pixels_func) ==
    /\ pc = "new"
    /\ stack' = <<[path |-> path, width |-> width, height |-> height,
                   pixels_func |-> pixels_func]>>
    /\ IF raises_struct_error(width, height)
       THEN /\ pc' = "raised"
            /\ result' = [error |-> StructError]
            /\ UNCHANGED files
       ELSE /\ files' = [f \in {path} |-> make_png(width, height, pixels_func)]
            /\ pc' = "saved"
            /\ UNCHANGED result
    /\ UNCHANGED <<access, labels, transitions, choices, visited, current,
                   choice_idx, step, integrity>>

(* png_sig of the test, line 482 *)
png_sig == <<137, 80, 78, 71, 13, 10, 26, 10>>

(* f.read(8) *)
read_8(bytes) == SubSeq(bytes, 1, IF Len(bytes) < 8 THEN Len(bytes) ELSE 8)

(* TestBarScrollbarSliderImages.test_all_image_files_are_valid_pngs:
   assertEqual inside the loops: the first file with another header *)
test_all_image_files_are_valid_pngs ==
    /\ pc \in {"saved", "png_checked"}
    /\ \E order \in Orders(DOMAIN files) :
          LET bad == SelectSeq(order, LAMBDA f : read_8(files[f]) # png_sig)
          IN  result' = [bad |-> first_of(bad)]
    /\ pc' = "png_checked"
    /\ UNCHANGED <<access, files, labels, transitions, choices, visited, current,
                   choice_idx, step, stack, integrity>>

InitPng ==
    /\ files = [f \in {} |-> <<>>]
    /\ pc = "new"
    /\ labels = <<>>
    /\ transitions = <<>>
    /\ choices = <<>>
    /\ visited = <<>>
    /\ current = None
    /\ choice_idx = 0
    /\ step = 0
    /\ stack = <<>>
    /\ integrity = None
    /\ access = AllReadable
    /\ result = None

(* the sizes save_png is called with: the small ones, whose pixels are
   looked at, and for each side one that takes the third byte of its field
   and the first one struct.pack refuses, 2^32, next to a side of 0..MaxDim *)
Sizes ==
    {<<limbs(w), limbs(h)>> : w \in 0..MaxDim, h \in 0..MaxDim}
    \cup {<<(<<1, 0>>), limbs(0)>>}
    \cup {<<(<<65536, 0>>), limbs(h)>> : h \in 0..MaxDim}
    \cup {<<limbs(w), (<<65536, 0>>)>> : w \in 0..MaxDim}

NextPng ==
    \/ \E size \in Sizes, pixels_func \in PixelFuncs :
          save_png("gui/frame.png", size[1], size[2], pixels_func)
    \/ test_all_image_files_are_valid_pngs

SpecPng == InitPng /\ [][NextPng]_vars

(* Vocabulary of the PNG properties: the chunks of a byte string, read as a
   decoder reads them, from the ninth byte on *)
BigEndian(b, pos) ==
    ((b[pos] * 256 + b[pos + 1]) * 256 + b[pos + 2]) * 256 + b[pos + 3]

RECURSIVE ChunkTypes(_, _)
ChunkTypes(b, pos) ==
    IF pos = Len(b) + 1 THEN <<>>
    ELSE IF pos + 11 > Len(b) \/ pos + 11 + BigEndian(b, pos) > Len(b)
    THEN <<"truncated">>
    ELSE <<SubSeq(b, pos + 4, pos + 7)>> \o ChunkTypes(b, pos + 12 + BigEndian(b, pos))

(* C19: every file make_png produced starts with the eight bytes of the PNG
   signature, the ones the test compares with, and goes on with exactly
   three chunks, IHDR, IDAT and IEND in this order, that take up all the
   remaining bytes; the signature test finds nothing to report. *)
C19_SignatureAndChunks ==
    /\ pc \in {"saved", "png_checked"} =>
          \A f \in DOMAIN files :
              /\ Len(files[f]) >= 8
              /\ SubSeq(files[f], 1, 8) = <<137, 80, 78, 71, 13, 10, 26, 10>>
              /\ ChunkTypes(files[f], 9) =
                     << <<73, 72, 68, 82>>, <<73, 68, 65, 84>>, <<73, 69, 78, 68>> >>
    /\ pc = "png_checked" => result.bad = <<>>

C19_Witness ==
    /\ pc = "png_checked"
    /\ result.bad = <<>>
    /\ \E f \in DOMAIN files :
          /\ SubSeq(files[f], 17, 24) = <<0, 0, 0, 2, 0, 0, 0, 2>>
          /\ Len(files[f]) > 8 + 25 + 12 + 12 + 18

----------------------------------------------------------------------------
(* The classes of the suite run one after the other over one corpus of two
   documents; the class attributes of a class that ran stay as they are *)

InitSuite ==
    /\ \E s \in SeqsUpTo(ScriptLines, MaxLines - 1) \cup {DiamondScript},
          t \in {<<>>, <<Line("label", "ending")>>, <<Line("jump", "mid")>>} :
          files = [f \in {"script.rpy", "screens.rpy"} |->
                      IF f = "script.rpy" THEN s ELSE t]
    /\ pc = "new"
    /\ labels = <<>>
    /\ transitions = <<>>
    /\ choices = <<>>
    /\ visited = <<>>
    /\ current = None
    /\ choice_idx = 0
    /\ step = 0
    /\ stack = <<>>
    /\ integrity = None
    /\ access = AllReadable
    /\ result = None

NextSuite ==
    \/ E2E_setUpClass
    \/ \E start_label \in Names, chs \in ShortChoices : WalkCall(start_label, chs)
    \/ WalkNotFound
    \/ WalkStop
    \/ WalkAdvance
    \/ WalkExhausted
    \/ Graph_setUpClass
    \/ ReachStart
    \/ ReachSkip
    \/ ReachVisit
    \/ ReachDone
    \/ test_no_dead_end_labels
    \/ LabelIntegrity_setUpClass
    \/ test_all_jump_targets_exist

SpecSuite == InitSuite /\ [][NextSuite]_vars

(* the names that lines holding "jump n" give in a block *)
JumpNamesIn(content) == {content[i].n : i \in JumpTextLines(content)}

(* C21: in the built graph the keys of transitions are the keys of labels,
   in the same order, so the source of every edge is a defined label
   block; the targets of a block are all the names its "jump n" texts give,
   defined or not (building the graph drops none and never fails: setting
   the class up is enabled on every corpus); and an edge whose target has
   no label definition in any document is among the names the jump-target
   check reports. *)
C21_EdgesFromDefinedBlocks ==
    /\ pc = "new" => ENABLED Graph_setUpClass
    /\ pc \in GraphIdle \cup {"traversing"} =>
          /\ Len(transitions) = Len(labels)
          /\ \A i \in 1..Len(labels) :
                /\ transitions[i][1] = labels[i][1]
                /\ transitions[i][2] = JumpNamesIn(labels[i][2])
    /\ pc = "jump_checked" =>
          \A i \in 1..Len(transitions) : \A t \in transitions[i][2] :
              ~Occurs({"label"}, t) => t \in result.missing

C21_Witness ==
    /\ pc = "jump_checked"
    /\ Script = <<Line("label", "start"), Line("jump", "ending")>>
    /\ Succ("start") = {"ending"}
    /\ ~Defined("ending")
    /\ result.missing = {"ending"}

----------------------------------------------------------------------------
(* TestStyleConsistency.test_no_style_inherits_from_undefined_custom_parent *)

MaxChain == 3

(* re.findall(r'^style\s+(\w+)\s+(?:is\s+)?(\w+)\s*(?::|\s*$)', screens,
   re.MULTILINE): on a line "style x is p" the pair (x, p) *)
inheritance_patterns(screens) == findall_style_is(screens)

(* line 1110 *)
base_styles == {"bar", "vbar", "scrollbar", "vscrollbar", "slider", "vslider"}

(* f"gui_{child}" for the names of base_styles *)
gui_of(child) ==
    BASE_TO_GUI[CHOOSE i \in 1..Len(BASE_TO_GUI) : BASE_TO_GUI[i][1] = child][2]

(* lines 1111-1116: assertNotEqual inside the loop: the run ends at the
   first pair whose child is a base style and whose parent is its gui_ name *)
RECURSIVE first_circular(_, _)
first_circular(patterns, i) ==
    IF i > Len(patterns) THEN <<>>
    ELSE IF patterns[i][1] \in base_styles /\ patterns[i][2] = gui_of(patterns[i][1])
    THEN <<patterns[i]>>
    ELSE first_circular(patterns, i + 1)

test_no_style_inherits_from_undefined_custom_parent ==
    /\ pc \in StylesIdle
    /\ result' = [failures |->
                     first_circular(inheritance_patterns(files["screens.rpy"]), 1)]
    /\ pc' = "inherit_checked"
    /\ UNCHANGED <<access, files, labels, transitions, choices, visited, current,
                   choice_idx, step, stack, integrity>>

(* declarations between three styles of the author's, and three of the table *)
ChainLines ==
    {Line("style_is", <<x, p>>) : x \in {"a", "b", "c"}, p \in {"a", "b", "c"}}
    \cup {Line("style_is", <<"bar", "gui_bar">>), Line("style_is", <<"frame", "gui_frame">>),
          Line("style_is", <<"slider", "default">>)}

InitChains ==
    /\ \E a \in SeqsUpTo(ChainLines, MaxChain) :
          files = [f \in {"screens.rpy", "script.rpy"} |->
                      IF f = "screens.rpy" THEN a ELSE <<>>]
    /\ pc = "new"
    /\ labels = <<>>
    /\ transitions = <<>>
    /\ choices = <<>>
    /\ visited = <<>>
    /\ current = None
    /\ choice_idx = 0
    /\ step = 0
    /\ stack = <<>>
    /\ integrity = None
    /\ access = AllReadable
    /\ result = None

NextChains ==
    \/ test_no_base_style_inherits_from_own_gui_variant
    \/ test_no_style_inherits_from_undefined_custom_parent
    \/ test_no_conflicting_style_inheritance

SpecChains == InitChains /\ [][NextChains]_vars

(* Vocabulary: the parent of a style is the one a declaration of
   screens.rpy gives it; a gui_ style of the table has its base style as
   parent *)
ParentEdges ==
    {files["screens.rpy"][i].n :
        i \in {j \in 1..Len(files["screens.rpy"]) : files["screens.rpy"][j].k = "style_is"}}
    \cup {<<BASE_TO_GUI[i][2], BASE_TO_GUI[i][1]>> : i \in 1..Len(BASE_TO_GUI)}

StyleNames == {e[1] : e \in ParentEdges} \cup {e[2] : e \in ParentEdges}

RECURSIVE Ancestors(_, _)
Ancestors(S, k) ==
    IF k = 0 THEN S
    ELSE Ancestors(S \cup {e[2] : e \in {d \in ParentEdges : d[1] \in S}}, k - 1)

(* some style's parent chain comes back to a style that is on it *)
Cyclic ==
    \E x \in StyleNames :
        x \in Ancestors({e[2] : e \in {d \in ParentEdges : d[1] = x}},
                        Cardinality(StyleNames))

(* C22: the two checks of style inheritance, run one after the other over
   declarations in which some style's parent chain revisits a style, do not
   both pass: one of them reports a failure, whatever the names and the
   length of the cycle. *)
C22_EveryCycleRejected ==
    [][(/\ pc = "style_checked"
        /\ pc' = "inherit_checked"
        /\ Cyclic)
       => (result.failures # <<>> \/ result'.failures # <<>>)]_vars

----------------------------------------------------------------------------
(* the names of the jump statements of a text: lines that begin, after
   their indentation, with the word jump *)
JumpStatementsIn(content) ==
    {content[i].n : i \in {j \in 1..Len(content) : content[j].k = "jump"}}

(* C23: "jump n" counts only where it begins a line.  The jump targets of
   the reference check are names of jump statements of the corpus; the
   edges of a block of the graph are the names of its jump statements; the
   dead-end check reports a block when some block has neither a jump
   statement nor a return line; and the walk stops at a block that has no
   jump statement.  Dialogue that holds the words and a longer word that
   ends in jump give none of these. *)
C23_KeywordsBeginALine ==
    /\ [](pc \in LabelIntegrityIdle =>
            \A n \in integrity.jump_targets : Occurs({"jump"}, n))
    /\ [](pc \in GraphIdle =>
            \A i \in 1..Len(labels) :
                Succ(labels[i][1]) \subseteq JumpStatementsIn(labels[i][2]))
    /\ [](pc = "dead_end_done" =>
            ((\E i \in 1..Len(labels) :
                 /\ JumpStatementsIn(labels[i][2]) = {}
                 /\ ~HasReturnLine(labels[i][2]))
             => result.dead_end # None))
    /\ [][(/\ pc = "walking"
           /\ step < 50
           /\ Defined(current)
           /\ JumpStatementsIn(BlockOf(current)) = {})
          => pc' = "walk_returned"]_vars

----------------------------------------------------------------------------
(* C24: in every outcome of _walk_path the visited sequence has between 1
   and 51 entries, the start label and one for each step of the budget of
   50; it has exactly 51 when "Max steps exceeded" is returned; and the
   number of choices consumed is never more than the choices given, nor
   more than the steps taken. *)
C24_VisitedAndChoicesBounded ==
    /\ pc \in {"walking", "walk_returned"} =>
          /\ Len(visited) >= 1
          /\ Len(visited) <= 51
          /\ choice_idx <= Len(choices)
          /\ choice_idx <= step
          /\ choice_idx <= Len(visited) - 1
    /\ pc = "walk_returned" =>
          /\ Len(result.visited) \in 1..51
          /\ result.error = MaxStepsExceeded => Len(result.visited) = 51

C24_Witness ==
    /\ pc = "walk_returned"
    /\ result.error = MaxStepsExceeded
    /\ Len(result.visited) = 51
    /\ Len(choices) = 50
    /\ choice_idx = 50

----------------------------------------------------------------------------
(* the dead-end check, run on the blocks the walk uses, reports no block *)
DeadEndCheckPasses == first_dead_end(labels, 1) = None

(* C25: when the dead-end check passes for the blocks of the script, no
   walk returns without error and with the flag False: every walk that
   stops without error stops at a block that has a return line, whatever
   the start label and the choices are. *)
C25_NoSilentFallOff ==
    (pc = "walk_returned" /\ DeadEndCheckPasses) =>
        /\ ~(result.error = NoError /\ result.has_return = FALSE)
        /\ result.error = NoError =>
              /\ Defined(Last(result.visited))
              /\ HasReturnLine(BlockOf(Last(result.visited)))

C25_Witness ==
    /\ pc = "walk_returned"
    /\ DeadEndCheckPasses
    /\ result.error = NoError
    /\ result.has_return
    /\ Len(result.visited) = 3
    /\ \E i \in 1..Len(Script) : Script[i].k = "jump"

----------------------------------------------------------------------------
(* The jump edges of the blocks the walk uses: a block's targets are the
   names its "jump n" texts give, which is what the graph class keeps in
   transitions for the same block *)
BlockSucc(n) == IF Defined(n) THEN JumpNamesIn(BlockOf(n)) ELSE {}

BlockNodes ==
    {labels[i][1] : i \in 1..Len(labels)}
    \cup UNION {JumpNamesIn(labels[i][2]) : i \in 1..Len(labels)}

RECURSIVE BlockClosure(_, _)
BlockClosure(S, k) ==
    IF k = 0 THEN S ELSE BlockClosure(S \cup UNION {BlockSucc(n) : n \in S}, k - 1)

(* the labels joined to a label by a chain of zero or more jump edges *)
ReachableFrom(entry) == BlockClosure({entry}, Cardinality(BlockNodes))

(* C26: a walk without choices stays in the graph: every label of the
   visited sequence it returns is joined to the start label by jump edges,
   and each label of the sequence is a jump target of the block of the one
   before it. *)
C26_WalkWithinReachable ==
    (pc = "walk_returned" /\ choices = <<>>) =>
        /\ \A i \in 1..Len(result.visited) :
              result.visited[i] \in ReachableFrom(result.visited[1])
        /\ \A i \in 1..(Len(result.visited) - 1) :
              result.visited[i + 1] \in BlockSucc(result.visited[i])

C26_Witness ==
    /\ pc = "walk_returned"
    /\ choices = <<>>
    /\ result.visited = <<"start", "mid", "ending">>
    /\ BlockSucc("start") = {"start", "mid"}
    /\ result.error = NoError

----------------------------------------------------------------------------
(* C27 as stated: whatever the choices, each label of the visited sequence
   is a jump target of the block of the label before it, and is joined to
   the start label by jump edges. *)
C27_ChoicesFollowEdges ==
    pc = "walk_returned" =>
        /\ \A i \in 1..(Len(result.visited) - 1) :
              result.visited[i + 1] \in BlockSucc(result.visited[i])
        /\ \A i \in 1..Len(result.visited) :
              result.visited[i] \in ReachableFrom(result.visited[1])

(* C27 amended: the item of the choices is taken as it is, without a look
   at the jump targets of the block.  After every move of the walk, the
   label moved to is either a jump target of the block of the label before
   it, or the item of the choices consumed last, taken at a block that has
   a menu; as long as no choice was consumed, it is a jump target.  Holding
   after every move, this holds of every pair of consecutive labels of the
   visited sequence. *)
C27_ChoiceTakenUnchecked ==
    (pc \in {"walking", "walk_returned"} /\ Len(visited) >= 2) =>
        LET n == Len(visited)
        IN  /\ \/ visited[n] \in BlockSucc(visited[n - 1])
               \/ /\ HasMenuLine(BlockOf(visited[n - 1]))
                  /\ choice_idx >= 1
                  /\ visited[n] = choices[choice_idx]
            /\ choice_idx = 0 => visited[n] \in BlockSucc(visited[n - 1])

C27_Witness ==
    /\ pc = "walk_returned"
    /\ Script = <<Line("label", "start"), Line("menu", None), Line("jump", "start")>>
    /\ choices = <<"ending">>
    /\ result.visited = <<"start", "ending">>
    /\ "ending" \notin BlockSucc("start")
    /\ result.error = NotFound("ending")

----------------------------------------------------------------------------
(* C28: when the walk returns "Label not found", the label the error names
   is the last of the visited sequence and is no defined block, and every
   label before it is a defined block; when it returns without error,
   every label of the visited sequence is a defined block. *)
C28_VisitedAreDefined ==
    pc = "walk_returned" =>
        LET v == result.visited
        IN  /\ Len(v) >= 1
            /\ (result.error # NoError /\ result.error # MaxStepsExceeded) =>
                  /\ result.error = NotFound(Last(v))
                  /\ ~Defined(Last(v))
                  /\ \A i \in 1..(Len(v) - 1) : Defined(v[i])
            /\ result.error = NoError => \A i \in 1..Len(v) : Defined(v[i])

C28_Witness ==
    /\ pc = "walk_returned"
    /\ result.error = NotFound("ending")
    /\ result.visited = <<"start", "start", "ending">>
    /\ Defined("start")
    /\ ~Defined("ending")

----------------------------------------------------------------------------
(* The reference class is set up right after a walk or the traversal
   returned, over the same corpus: integrity' holds the sets its jump
   check compares, result and visited what the graph class returned *)
JumpCheckWillPass == integrity'.jump_targets \ integrity'.defined_labels = {}

AfterWalkWithoutChoices ==
    /\ pc = "walk_returned"
    /\ pc' = "refs_ready"
    /\ choices = <<>>
    /\ Defined(result.visited[1])

AfterTraversal == pc = "reach_done" /\ pc' = "refs_ready"

(* C29 as stated: when the jump check over the corpus reports nothing, a
   walk without choices from a label of the graph does not return "Label
   not found", and the traversal returns defined blocks of the graph only;
   also when a target is defined in another document than script.rpy. *)
C29_ValidatorAndGraphAgree ==
    /\ [](pc = "jump_checked" =>
            result.missing = integrity.jump_targets \ integrity.defined_labels)
    /\ [][(AfterWalkWithoutChoices /\ JumpCheckWillPass) =>
            (result.error = NoError \/ result.error = MaxStepsExceeded)]_vars
    /\ [][(AfterTraversal /\ JumpCheckWillPass /\ Defined("start")) =>
            \A n \in visited : Defined(n)]_vars

(* C29 amended: when the jump check over the corpus reports nothing, every
   label a walk without choices visits, and every label the traversal
   returns apart from its entry start, has a label definition in some
   document of the corpus; it is a block of the graph only when script.rpy
   defines it.  A walk that returns "Label not found" then names a label
   that another document defines. *)
C29_AgreeUpToOtherDocuments ==
    /\ [](pc = "jump_checked" =>
            result.missing = integrity.jump_targets \ integrity.defined_labels)
    /\ [][(AfterWalkWithoutChoices /\ JumpCheckWillPass) =>
            /\ \A i \in 1..Len(result.visited) : Occurs({"label"}, result.visited[i])
            /\ \A i \in 1..Len(result.visited) :
                  Defined(result.visited[i])
                  <=> (\E j \in 1..Len(Script) :
                          Script[j] = Line("label", result.visited[i]))
            /\ (result.error # NoError /\ result.error # MaxStepsExceeded) =>
                  /\ result.error = NotFound(Last(result.visited))
                  /\ \E j \in 1..Len(files["screens.rpy"]) :
                        files["screens.rpy"][j] = Line("label", Last(result.visited))]_vars
    /\ [][(AfterTraversal /\ JumpCheckWillPass) =>
            \A n \in visited \ {"start"} :
                /\ Occurs({"label"}, n)
                /\ Defined(n) <=> (\E j \in 1..Len(Script) : Script[j] = Line("label", n))]_vars

C29_Witness ==
    /\ pc = "jump_checked"
    /\ result.missing = {}
    /\ Script = <<Line("label", "start"), Line("jump", "ending")>>
    /\ files["screens.rpy"] = <<Line("label", "ending")>>
    /\ transitions = <<>>
    /\ visited = <<"start", "ending">>
    /\ ~Defined("ending")

----------------------------------------------------------------------------
(* The bytes of a file make_png produced, read as a decoder reads them *)

(* zlib.decompress of a stream of one stored block: the bytes between the
   seven bytes of header and the Adler-32 *)
zlib_decompress(stream) == SubSeq(stream, 8, Len(stream) - 4)

(* the data of the chunk that starts at pos, by its length field *)
ChunkData(b, pos) == SubSeq(b, pos + 8, pos + 7 + BigEndian(b, pos))

(* the length field delimits the data: the four bytes after them are the
   CRC of type and data *)
LengthFieldIsDataLength(b, pos) ==
    LET n == BigEndian(b, pos)
    IN  /\ pos + 11 + n <= Len(b)
        /\ SubSeq(b, pos + 8 + n, pos + 11 + n) = crc32(SubSeq(b, pos + 4, pos + 7 + n))

(* what C30 says of the bytes b that make_png(width, height, pixels_func)
   returned *)
EncodedAsStated(b, width, height, pixels_func) ==
    LET w   == int_of(width)
        h   == int_of(height)
        idat_pos == 9 + 12 + 13
        raw == zlib_decompress(ChunkData(b, idat_pos))
        iend_pos == idat_pos + 12 + BigEndian(b, idat_pos)
    IN  /\ <<b[17] * 256 + b[18], b[19] * 256 + b[20]>> = width
        /\ <<b[21] * 256 + b[22], b[23] * 256 + b[24]>> = height
        /\ b[25] = 8
        /\ b[26] = 6
        /\ BigEndian(b, 9) = 13
        /\ LengthFieldIsDataLength(b, 9)
        /\ SubSeq(b, idat_pos + 4, idat_pos + 7) = IDAT
        /\ LengthFieldIsDataLength(b, idat_pos)
        /\ SubSeq(b, iend_pos + 4, iend_pos + 7) = IEND
        /\ BigEndian(b, iend_pos) = 0
        /\ LengthFieldIsDataLength(b, iend_pos)
        /\ Len(b) = iend_pos + 11
        /\ Len(raw) = h * (1 + 4 * w)
        /\ \A y \in 0..(h - 1) :
              /\ raw[y * (1 + 4 * w) + 1] = 0
              /\ \A x \in 0..(w - 1) :
                    SubSeq(raw, y * (1 + 4 * w) + 2 + 4 * x, y * (1 + 4 * w) + 5 + 4 * x)
                        = pixels_func[<<x, y>>]

(* a number that is at least 0 *)
NonNegative(d) == d[1] >= 0 /\ d[2] >= 0

(* C30 as stated: for all width >= 0 and height >= 0 make_png returns bytes
   in which IHDR holds width and height as 32-bit big-endian integers, bit
   depth 8 and colour type 6, the uncompressed image data is height rows of
   one filter byte 0 and the 4 * width bytes r, g, b, a of the pixels in x
   order, and each chunk's length field is the length of its data. *)
C30_AnyNonNegativeSize ==
    (pc \in {"saved", "raised"} /\ NonNegative(stack[1].width)
        /\ NonNegative(stack[1].height)) =>
        /\ pc = "saved"
        /\ EncodedAsStated(files[stack[1].path], stack[1].width, stack[1].height,
                           stack[1].pixels_func)

(* C30 amended: the same for width and height from 0 to 2^32 - 1; with a
   width or a height of 2^32 or more line 28 raises struct.error, no bytes
   are returned and save_png writes no file. *)
C30_SizesOfFourBytes ==
    (pc \in {"saved", "raised"} /\ NonNegative(stack[1].width)
        /\ NonNegative(stack[1].height)) =>
        IF fits_I(stack[1].width) /\ fits_I(stack[1].height)
        THEN /\ pc = "saved"
             /\ EncodedAsStated(files[stack[1].path], stack[1].width, stack[1].height,
                                stack[1].pixels_func)
        ELSE /\ pc = "raised"
             /\ result.error = StructError
             /\ DOMAIN files = {}

(* a file of two rows of two pixels of two colours has been written *)
C30_Witness ==
    /\ pc = "saved"
    /\ \E f \in DOMAIN files :
          /\ SubSeq(files[f], 17, 26) = <<0, 0, 0, 2, 0, 0, 0, 2, 8, 6>>
          /\ zlib_decompress(ChunkData(files[f], 34)) =
                 <<0, 0, 0, 0, 0, 255, 255, 255, 255, 0, 255, 255, 255, 255, 0, 0, 0, 0>>

=============================================================================
